---------------------------- MODULE Spec2Model ----------------------------
(***************************************************************************)
(* A model of cjson.h: the value tree on an explicit heap (element nodes,  *)
(* string buffers, array backing stores, bucket arrays, map entries), the  *)
(* lexer and the recursive-descent parser over a byte buffer, the path     *)
(* accessor, the serializer, clone and delete.                             *)
(***************************************************************************)
EXTENDS Integers, Sequences, FiniteSets, TLC

VARIABLES mem, roots, clones, calls, last, run

vars == <<mem, roots, clones, calls, last, run>>

(***************************************************************************)
(* Bounds of the model.                                                    *)
(***************************************************************************)
MaxCalls == 3
MaxInserts == 3

(***************************************************************************)
(* Bytes.  A byte is a one-character string; NUL is the terminator of a C  *)
(* string.  A text is a sequence of bytes without its terminator.          *)
(***************************************************************************)
NUL == "NUL"

ord(c) ==
    CASE c = NUL -> 0
      [] c = " " -> 32
      [] c = "\"" -> 34
      [] c = "," -> 44
      [] c = "-" -> 45
      [] c = "." -> 46
      [] c = "/" -> 47
      [] c = "0" -> 48
      [] c = "1" -> 49
      [] c = "2" -> 50
      [] c = "3" -> 51
      [] c = "4" -> 52
      [] c = "5" -> 53
      [] c = "6" -> 54
      [] c = "7" -> 55
      [] c = "8" -> 56
      [] c = "9" -> 57
      [] c = ":" -> 58
      [] c = "[" -> 91
      [] c = "\\" -> 92
      [] c = "]" -> 93
      [] c = "_" -> 95
      [] c = "a" -> 97
      [] c = "b" -> 98
      [] c = "c" -> 99
      [] c = "e" -> 101
      [] c = "f" -> 102
      [] c = "l" -> 108
      [] c = "n" -> 110
      [] c = "r" -> 114
      [] c = "s" -> 115
      [] c = "t" -> 116
      [] c = "u" -> 117
      [] c = "x" -> 120
      [] c = "{" -> 123
      [] c = "}" -> 125
      [] OTHER -> 63

Digits == {"0", "1", "2", "3", "4", "5", "6", "7", "8", "9"}
isdigit(c) == c \in Digits
isspace(c) == c = " "
isalpha(c) == (ord(c) >= 97 /\ ord(c) <= 122) \/ (ord(c) >= 65 /\ ord(c) <= 90)
DigitVal(c) == ord(c) - 48

(***************************************************************************)
(* The heap.  An address is an index into cells; 0 is the NULL pointer.    *)
(* malloc/calloc take the next unused address, addresses are never reused, *)
(* so a freed cell stays recognisable.  faults collects the memory errors  *)
(* an execution has run into.                                              *)
(***************************************************************************)
EmptyHeap == [cells |-> <<>>, faults |-> {}]

Fault(h, f) == [h EXCEPT !.faults = @ \cup {f}]

Alloc(h, cell) ==
    [h EXCEPT !.cells = Append(@, cell @@ [live |-> TRUE, frees |-> 0])]

NewAddr(h) == Len(h.cells) + 1

IsAddr(h, a) == a \in 1..Len(h.cells)

Live(h, a) == IsAddr(h, a) /\ h.cells[a].live

\* A read or write through pointer a: NULL and freed memory are faults.
Touch(h, a) ==
    IF a = 0 THEN Fault(h, "null_deref")
    ELSE IF ~IsAddr(h, a) THEN Fault(h, "wild_pointer")
    ELSE IF ~h.cells[a].live THEN Fault(h, "use_after_free")
    ELSE h

free(h, a) ==
    IF a = 0 THEN h
    ELSE IF ~IsAddr(h, a) THEN Fault(h, "wild_pointer")
    ELSE LET h1 == [h EXCEPT !.cells[a].frees = @ + 1, !.cells[a].live = FALSE]
         IN  IF h.cells[a].live THEN h1 ELSE Fault(h1, "double_free")

(***************************************************************************)
(* Cells.  An element is its tag and the member of the union last written; *)
(* calloc leaves the union zeroed.                                         *)
(***************************************************************************)
ZeroValue == [zero |-> 0]

ElementCell(type, value) == [k |-> "elem", element_type |-> type, value |-> value]
StringCell(chars) == [k |-> "str", chars |-> chars]
SlotsCell(slots) == [k |-> "slots", slots |-> slots]
ItemsCell(heads) == [k |-> "items", heads |-> heads]
ItemCell(name, element, next) ==
    [k |-> "item", name |-> name, element |-> element, next |-> next]

\* The content of a malloc'ed slot nobody has written yet.
Uninit == -1

IsElem(h, a) == IsAddr(h, a) /\ h.cells[a].k = "elem"
TypeOf(h, e) == h.cells[e].element_type
ValueOf(h, e) == h.cells[e].value

\* The union read through its integer member.  The floats of the model
\* are dyadic with a short mantissa, so the low 32 bits of their double,
\* which the integer member overlays, are zero.
UnionInteger(v) ==
    IF "integer" \in DOMAIN v THEN v.integer
    ELSE IF "boolean" \in DOMAIN v THEN (IF v.boolean THEN 1 ELSE 0)
    ELSE 0

\* The union read as an array / an object: a zeroed union is the empty one.
ArrayOf(h, e) ==
    LET v == h.cells[e].value
    IN  IF "elements" \in DOMAIN v THEN v
        ELSE [elements |-> 0, size |-> 0, capacity |-> 0]

MembersOf(h, e) == h.cells[e].value

cjson_is_array(h, e) == TypeOf(h, e) = "ARRAY"
cjson_is_object(h, e) == TypeOf(h, e) = "OBJECT"
cjson_is_float(h, e) == TypeOf(h, e) = "FLOAT"
cjson_is_integer(h, e) == TypeOf(h, e) = "INTEGER"
cjson_is_string(h, e) == TypeOf(h, e) = "STRING"

(***************************************************************************)
(* Constructors: each returns the heap after the allocation; the new       *)
(* element is at NewAddr of the heap before.                               *)
(***************************************************************************)
cjson_create_null(h) == Alloc(h, ElementCell("NULL", ZeroValue))

cjson_create_bool(h, value) == Alloc(h, ElementCell("BOOL", [boolean |-> value]))

cjson_create_integer(h, value) ==
    Alloc(h, ElementCell("INTEGER", [integer |-> value]))

cjson_create_float(h, value) ==
    Alloc(h, ElementCell("FLOAT", [fraction |-> value]))

\* strdup of the caller's text, then the element: the element is the
\* second of the two new cells.
cjson_create_string(h, value) ==
    LET h1 == Alloc(h, StringCell(value))
    IN  Alloc(h1, ElementCell("STRING", [string |-> NewAddr(h)]))

cjson_create_array(h) ==
    Alloc(h, ElementCell("ARRAY", [elements |-> 0, size |-> 0, capacity |-> 0]))

\* The element first, then its bucket array.
cjson_create_object(h, capacity) ==
    LET h1 == Alloc(h, ElementCell("OBJECT",
                        [items |-> NewAddr(h) + 1, capacity |-> capacity]))
    IN  Alloc(h1, ItemsCell([i \in 1..capacity |-> 0]))

(***************************************************************************)
(* Array container.                                                        *)
(***************************************************************************)
ArrayInitCapacity == 8

Grow(slots, capacity) ==
    [i \in 1..capacity |-> IF i <= Len(slots) THEN slots[i] ELSE Uninit]

\* array is the address of the element holding the cjson_array.
cjson_array_append(h, array, element) ==
    LET a0 == ArrayOf(h, array)
        \* capacity == 0: first allocation
        h1 == IF a0.capacity = 0
              THEN Alloc(h, SlotsCell(Grow(<<>>, ArrayInitCapacity)))
              ELSE h
        a1 == IF a0.capacity = 0
              THEN [a0 EXCEPT !.capacity = ArrayInitCapacity, !.elements = NewAddr(h)]
              ELSE a0
        \* size == capacity: realloc to the double
        h2 == IF a1.size = a1.capacity
              THEN [h1 EXCEPT !.cells[a1.elements].slots = Grow(@, a1.capacity * 2)]
              ELSE h1
        a2 == IF a1.size = a1.capacity THEN [a1 EXCEPT !.capacity = @ * 2] ELSE a1
        h3 == [h2 EXCEPT !.cells[a2.elements].slots[a2.size + 1] = element]
    IN  [h3 EXCEPT !.cells[array].value = [a2 EXCEPT !.size = @ + 1]]

RECURSIVE InsertShift(_, _, _)

\* The swap loop stopping one slot short of index.
InsertShiftShort(slots, current, index) ==
    IF current > index + 1
    THEN LET tmp == slots[current]
             s1 == [slots EXCEPT ![current] = slots[current + 1],
                                 ![current + 1] = tmp]
         IN  InsertShift(s1, current - 1, index)
    ELSE slots

\* The swap loop of cjson_array_insert: current and index are 0-based.
InsertShift(slots, current, index) ==
    IF current > index
    THEN LET tmp == slots[current]
             s1 == [slots EXCEPT ![current] = slots[current + 1],
                                 ![current + 1] = tmp]
         IN  InsertShift(s1, current - 1, index)
    ELSE slots

cjson_array_insert(h, array, element, index) ==
    LET h1 == cjson_array_append(h, array, element)
        a == ArrayOf(h1, array)
    IN  [h1 EXCEPT !.cells[a.elements].slots = InsertShift(@, a.size - 1, index)]

\* The elements of an array, in order.
Elements(h, array) ==
    LET a == ArrayOf(h, array)
    IN  [i \in 1..a.size |-> h.cells[a.elements].slots[i]]

(***************************************************************************)
(* Object map.                                                             *)
(***************************************************************************)
RECURSIVE HashFrom(_, _, _)
HashFrom(str, i, res) ==
    IF i > Len(str) THEN res ELSE HashFrom(str, i + 1, res * 8 + ord(str[i]))

cjson_hash(str) == HashFrom(str, 1, 0)

NameOf(h, item) == h.cells[h.cells[item].name].chars

\* The chain scan shared by insert and get: the first entry from item on
\* whose name is name, or 0.
RECURSIVE FindItem(_, _, _)
FindItem(h, item, name) ==
    IF item = 0 \/ NameOf(h, item) = name THEN item
    ELSE FindItem(h, h.cells[item].next, name)

\* cjson_object_get: object is the address of the element holding the map.
cjson_object_get(h, object, name) ==
    LET m == MembersOf(h, object)
        hh == cjson_hash(name) % m.capacity
        item == FindItem(h, h.cells[m.items].heads[hh + 1], name)
    IN  IF item # 0 THEN h.cells[item].element ELSE 0

(***************************************************************************)
(* Object iteration.  A cursor is the struct cjson_object_iterator; map is *)
(* the address of the element whose union holds the cjson_map.             *)
(***************************************************************************)
\* The first non-empty bucket at or after 0-based index i, or capacity.
RECURSIVE NextBucket(_, _)
NextBucket(heads, i) ==
    IF i >= Len(heads) \/ heads[i + 1] # 0 THEN i ELSE NextBucket(heads, i + 1)

cjson_iterate_object(h, obj) ==
    LET m == MembersOf(h, obj)
        heads == h.cells[m.items].heads
        i == NextBucket(heads, 0)
        first == IF i < m.capacity THEN heads[i + 1] ELSE 0
        res == [map |-> obj, i |-> i, end |-> TRUE, item |-> 0,
                name |-> 0, element |-> 0]
    IN  IF first # 0
        THEN [res EXCEPT !.element = h.cells[first].element,
                         !.name = h.cells[first].name,
                         !.end = FALSE, !.item = first]
        ELSE res

\* A cursor step that leaves the current chain for the next bucket.
cjson_iterate_next_bucket(h, iterator) ==
    IF iterator.end THEN [h |-> h, it |-> iterator]
    ELSE
    LET m == MembersOf(h, iterator.map)
        heads == h.cells[m.items].heads
        i == NextBucket(heads, iterator.i + 1)
        it1 == IF i < m.capacity
               THEN [iterator EXCEPT !.i = i, !.item = heads[i + 1],
                        !.name = h.cells[heads[i + 1]].name,
                        !.element = h.cells[heads[i + 1]].element]
               ELSE [iterator EXCEPT !.i = i]
    IN  [h |-> h,
         it |-> IF it1.i = m.capacity THEN [it1 EXCEPT !.end = TRUE] ELSE it1]

\* Returns the cursor and the heap, whose faults record a read of freed
\* memory: the current entry is read for its next pointer, and the map and
\* its bucket array are read when the chain is exhausted.
cjson_iterate_next(h, iterator) ==
    IF iterator.end THEN [h |-> h, it |-> iterator]
    ELSE
    LET h1 == Touch(h, iterator.item)
        next == h.cells[iterator.item].next
    IN  IF next # 0
        THEN LET h2 == Touch(h1, next)
                 it1 == [iterator EXCEPT !.item = next,
                                         !.name = h.cells[next].name,
                                         !.element = h.cells[next].element]
                 h3 == Touch(h2, iterator.map)
             IN  [h |-> h3,
                  it |-> IF it1.i = MembersOf(h, iterator.map).capacity
                         THEN [it1 EXCEPT !.end = TRUE] ELSE it1]
        ELSE LET m == MembersOf(h, iterator.map)
                 h2 == Touch(Touch(h1, iterator.map), m.items)
                 heads == h.cells[m.items].heads
                 i == NextBucket(heads, iterator.i + 1)
                 it1 == IF i < m.capacity
                        THEN [iterator EXCEPT !.i = i, !.item = heads[i + 1],
                                 !.name = h.cells[heads[i + 1]].name,
                                 !.element = h.cells[heads[i + 1]].element]
                        ELSE [iterator EXCEPT !.i = i]
             IN  [h |-> h2,
                  it |-> IF it1.i = m.capacity
                         THEN [it1 EXCEPT !.end = TRUE] ELSE it1]

(***************************************************************************)
(* Delete.                                                                 *)
(***************************************************************************)
RECURSIVE cjson_delete(_, _)
RECURSIVE DeleteElements(_, _, _)
RECURSIVE DeleteMembers(_, _)

\* for (i = 0; i < size; i++) cjson_delete(elements[i]);
DeleteElements(h, elts, i) ==
    IF i > Len(elts) THEN h
    ELSE DeleteElements(cjson_delete(h, elts[i]), elts, i + 1)

\* The loop with the entry freed before the cursor has moved off it.
DeleteMembersFreeFirst(h, it) ==
    IF it.end THEN h
    ELSE LET h1 == free(h, it.name)
             h2 == cjson_delete(h1, it.element)
             h3 == free(h2, it.item)
             r == cjson_iterate_next(h3, it)
         IN  DeleteMembers(r.h, r.it)

\* while (!it.end) { free(it.name); cjson_delete(it.element);
\*                   item = it.item; cjson_iterate_next(&it); free(item); }
DeleteMembers(h, it) ==
    IF it.end THEN h
    ELSE LET h1 == free(h, it.name)
             h2 == cjson_delete(h1, it.element)
             item == it.item
             r == cjson_iterate_next(h2, it)
             h3 == free(r.h, item)
         IN  DeleteMembers(h3, r.it)

cjson_delete(h, element) ==
    IF ~Live(h, element) THEN Touch(h, element)
    ELSE LET t == TypeOf(h, element)
             v == ValueOf(h, element)
             h1 == CASE t = "STRING" -> free(h, v.string)
                     [] t = "ARRAY" ->
                          free(DeleteElements(h, Elements(h, element), 1),
                               ArrayOf(h, element).elements)
                     [] t = "OBJECT" ->
                          free(DeleteMembers(h, cjson_iterate_object(h, element)),
                               v.items)
                     [] OTHER -> h
         IN  free(h1, element)

\* The insert that forgets the element it replaces.
cjson_map_insert_leak(h, map, name, element) ==
    LET m == MembersOf(h, map)
        hh == cjson_hash(name) % m.capacity
        item == FindItem(h, h.cells[m.items].heads[hh + 1], name)
    IN  IF item = 0
        THEN LET new == NewAddr(h)
                 h1 == Alloc(h, ItemCell(new + 1, element,
                                         h.cells[m.items].heads[hh + 1]))
                 h2 == Alloc(h1, StringCell(name))
             IN  [h2 EXCEPT !.cells[m.items].heads[hh + 1] = new]
        ELSE [h EXCEPT !.cells[item].element = element]

\* cjson_map_insert: map is the address of the element holding the map.
\* A new entry is malloc'ed, then its name strdup'ed.
cjson_map_insert(h, map, name, element) ==
    LET m == MembersOf(h, map)
        hh == cjson_hash(name) % m.capacity
        item == FindItem(h, h.cells[m.items].heads[hh + 1], name)
    IN  IF item = 0
        THEN LET new == NewAddr(h)
                 h1 == Alloc(h, ItemCell(new + 1, element,
                                         h.cells[m.items].heads[hh + 1]))
                 h2 == Alloc(h1, StringCell(name))
             IN  [h2 EXCEPT !.cells[m.items].heads[hh + 1] = new]
        ELSE LET h1 == cjson_delete(h, h.cells[item].element)
             IN  [h1 EXCEPT !.cells[item].element = element]

cjson_object_insert(h, object, name, value) ==
    cjson_map_insert(h, object, name, value)

(***************************************************************************)
(* Clone.  Returns the heap and the address of the copy.                   *)
(***************************************************************************)
RECURSIVE cjson_clone(_, _)
RECURSIVE CloneElements(_, _, _, _)
RECURSIVE CloneMembers(_, _, _)

\* for (i = 0; i < src->size; i++) append(dst, cjson_clone(src->elements[i]));
CloneElements(h, elts, i, dst) ==
    IF i > Len(elts) THEN h
    ELSE LET c == cjson_clone(h, elts[i])
         IN  CloneElements(cjson_array_append(c.h, dst, c.res), elts, i + 1, dst)

\* while (!it.end) { insert(dst, it.name, cjson_clone(it.element)); next }
CloneMembers(h, it, dst) ==
    IF it.end THEN h
    ELSE LET c == cjson_clone(h, it.element)
             h1 == cjson_object_insert(c.h, dst, h.cells[it.name].chars, c.res)
             r == cjson_iterate_next(h1, it)
         IN  CloneMembers(r.h, r.it, dst)

\* The string case without the strdup: the copy points at the source's
\* buffer.
CloneStringShared(h, element) ==
    [h |-> Alloc(h, ElementCell("STRING", ValueOf(h, element))),
     res |-> NewAddr(h)]

\* The string case with a buffer of the right size that is never filled.
CloneStringEmpty(h, element) ==
    [h |-> Alloc(Alloc(h, ElementCell("STRING", [string |-> NewAddr(h) + 1])),
                 StringCell(<<>>)),
     res |-> NewAddr(h)]

CloneString(h, element) ==
    LET src == ValueOf(h, element).string
        res == NewAddr(h)
    IN  IF src = 0 THEN [h |-> Fault(h, "null_deref"), res |-> 0]
        ELSE [h |-> Alloc(Alloc(h, ElementCell("STRING", [string |-> res + 1])),
                          StringCell(h.cells[src].chars)),
              res |-> res]

cjson_clone(h, element) ==
    IF element = 0 THEN [h |-> h, res |-> 0]
    ELSE LET t == TypeOf(h, element)
             res == NewAddr(h)
         IN  CASE t = "STRING" -> CloneString(h, element)
               [] t = "ARRAY" ->
                    [h |-> CloneElements(cjson_create_array(h),
                                         Elements(h, element), 1, res),
                     res |-> res]
               [] t = "OBJECT" ->
                    [h |-> CloneMembers(
                               cjson_create_object(h, MembersOf(h, element).capacity),
                               cjson_iterate_object(h, element), res),
                     res |-> res]
               [] OTHER ->
                    \* *res = *element
                    [h |-> Alloc(h, ElementCell(t, ValueOf(h, element))),
                     res |-> res]

(***************************************************************************)
(* Serializer to a string builder.  A float is its value in millionths,    *)
(* the six decimals "%lf" prints.  indent is the function's static         *)
(* counter: it is part of the state the recursion passes on.               *)
(***************************************************************************)
FloatScale == 1000000
BuilderInitCapacity == 8

EmptyBuilder == [str |-> <<>>, size |-> 0, capacity |-> 0]

cjson_str_builder_append_char(sb, c) ==
    LET cap1 == IF sb.capacity = 0 THEN BuilderInitCapacity ELSE sb.capacity
        cap2 == IF sb.size = cap1 THEN cap1 * 2 ELSE cap1
    IN  [str |-> Append(sb.str, c), size |-> sb.size + 1, capacity |-> cap2]

RECURSIVE cjson_str_builder_append_cstr(_, _)
cjson_str_builder_append_cstr(sb, cstr) ==
    IF cstr = <<>> THEN sb
    ELSE cjson_str_builder_append_cstr(
             cjson_str_builder_append_char(sb, Head(cstr)), Tail(cstr))

DigitChar(d) == <<"0", "1", "2", "3", "4", "5", "6", "7", "8", "9">>[d + 1]

RECURSIVE NatChars(_)
NatChars(n) ==
    IF n < 10 THEN <<DigitChar(n)>>
    ELSE Append(NatChars(n \div 10), DigitChar(n % 10))

\* The digits of -n for n < 0, computed without negating n: -n does not
\* exist in 32 bits for the least int.
RECURSIVE NegChars(_)
NegChars(n) ==
    IF n > 0 - 10 THEN <<DigitChar(0 - n)>>
    ELSE IF n % 10 = 0 THEN Append(NegChars(n \div 10), "0")
    ELSE Append(NegChars(n \div 10 + 1), DigitChar(10 - (n % 10)))

\* The text "%d" writes.
IntChars(n) == IF n < 0 THEN <<"-">> \o NegChars(n) ELSE NatChars(n)

RECURSIVE PadDigits(_, _)
PadDigits(n, width) ==
    IF width = 0 THEN <<>>
    ELSE Append(PadDigits(n \div 10, width - 1), DigitChar(n % 10))

\* The text "%lf" writes.
FloatChars(f) ==
    LET a == IF f < 0 THEN 0 - f ELSE f
    IN  (IF f < 0 THEN <<"-">> ELSE <<>>)
        \o NatChars(a \div FloatScale) \o <<".">> \o PadDigits(a % FloatScale, 6)

Spaces(n) == [i \in 1..n |-> " "]

\* A serializer state: the builder, the static indent, a crash.
AppendChar(c, ch) == [c EXCEPT !.sb = cjson_str_builder_append_char(@, ch)]
AppendCstr(c, cstr) == [c EXCEPT !.sb = cjson_str_builder_append_cstr(@, cstr)]
PrettyBreak(c, pretty) ==
    IF pretty THEN AppendCstr(AppendChar(c, "\n"), Spaces(c.indent)) ELSE c

\* char buffer[11]
BufferSize == 11

\* sprintf(buffer, ...): the text and its NUL go to the buffer whatever its
\* size; beyond counts the bytes written after its end.
sprintf(chars) ==
    [chars |-> chars,
     beyond |-> IF Len(chars) + 1 > BufferSize
                THEN Len(chars) + 1 - BufferSize ELSE 0]

\* cjson_str_builder_append_cstr(sb, buffer)
AppendBuffer(c, b) == [AppendCstr(c, b.chars) EXCEPT !.beyond = @ + b.beyond]

RECURSIVE cjson_to_str_rec(_, _, _, _)
RECURSIVE StrElements(_, _, _, _, _)
RECURSIVE StrMembers(_, _, _, _)

StrMember(h, it, pretty, c) ==
    LET c1 == AppendChar(c, "\"")
        c2 == AppendCstr(c1, h.cells[it.name].chars)
        c3 == AppendCstr(c2, <<"\"", ":">>)
    IN  cjson_to_str_rec(h, it.element, pretty, c3)

\* for (i = 1; i < size; i++) { ',' newline element }
StrElements(h, elts, i, pretty, c) ==
    IF i > Len(elts) THEN c
    ELSE LET c1 == PrettyBreak(AppendChar(c, ","), pretty)
         IN  StrElements(h, elts, i + 1, pretty,
                         cjson_to_str_rec(h, elts[i], pretty, c1))

\* for (next(&it); !it.end; next(&it)) { ',' newline member }
StrMembers(h, it0, pretty, c) ==
    LET it == cjson_iterate_next(h, it0).it
    IN  IF it.end THEN c
        ELSE LET c1 == PrettyBreak(AppendChar(c, ","), pretty)
             IN  StrMembers(h, it, pretty, StrMember(h, it, pretty, c1))

cjson_to_str_rec(h, element, pretty, c) ==
    IF ~Live(h, element) THEN [c EXCEPT !.crash = TRUE]
    ELSE
    LET t == TypeOf(h, element)
        v == ValueOf(h, element)
    IN  CASE t = "NULL" -> AppendCstr(c, <<"n", "u", "l", "l">>)
          [] t = "BOOL" ->
               IF v.boolean THEN AppendCstr(c, <<"t", "r", "u", "e">>)
               ELSE AppendCstr(c, <<"f", "a", "l", "s", "e">>)
          [] t = "INTEGER" -> AppendBuffer(c, sprintf(IntChars(UnionInteger(v))))
          [] t = "FLOAT" -> AppendBuffer(c, sprintf(FloatChars(v.fraction)))
          [] t = "STRING" ->
               IF v.string = 0 THEN [c EXCEPT !.crash = TRUE]
               ELSE AppendChar(AppendCstr(AppendChar(c, "\""),
                                          h.cells[v.string].chars), "\"")
          [] t = "ARRAY" ->
               LET elts == Elements(h, element)
                   c1 == AppendChar(c, "[")
                   c2 == PrettyBreak([c1 EXCEPT !.indent = @ + 2], pretty)
                   c3 == IF Len(elts) > 0
                         THEN cjson_to_str_rec(h, elts[1], pretty, c2) ELSE c2
                   c4 == StrElements(h, elts, 2, pretty, c3)
                   c5 == PrettyBreak([c4 EXCEPT !.indent = @ - 2], pretty)
               IN  AppendChar(c5, "]")
          [] t = "OBJECT" ->
               LET c1 == AppendChar(c, "{")
                   c2 == PrettyBreak([c1 EXCEPT !.indent = @ + 2], pretty)
                   it == cjson_iterate_object(h, element)
                   c3 == IF ~it.end THEN StrMember(h, it, pretty, c2) ELSE c2
                   c4 == StrMembers(h, it, pretty, c3)
                   c5 == PrettyBreak([c4 EXCEPT !.indent = @ - 2], pretty)
               IN  AppendChar(c5, "}")

\* cjson_to_str: the text without the terminating NUL the builder ends with.
ToStrState(h, element, pretty) ==
    cjson_to_str_rec(h, element, pretty,
                     [sb |-> EmptyBuilder, indent |-> 0, crash |-> FALSE,
                      beyond |-> 0])

cjson_to_str(h, element, pretty) == ToStrState(h, element, pretty).sb.str

(***************************************************************************)
(* cjson_dump.  The same walk writing to the standard output: a state is   *)
(* the bytes written, the function's own static indent, a crash.           *)
(***************************************************************************)
\* printf / putchar
Printed(c, chars) == [c EXCEPT !.out = @ \o chars]

cjson_pretty_newline(c, pretty) ==
    IF pretty THEN Printed(c, <<"\n">> \o Spaces(c.indent)) ELSE c

RECURSIVE cjson_dump(_, _, _, _)
RECURSIVE DumpElements(_, _, _, _, _)
RECURSIVE DumpMembers(_, _, _, _)

\* printf("\"%s\":", it.name); cjson_dump(it.element, pretty);
DumpMember(h, it, pretty, c) ==
    cjson_dump(h, it.element, pretty,
               Printed(c, <<"\"">> \o h.cells[it.name].chars \o <<"\"", ":">>))

\* for (i = 1; i < size; i++) { ',' newline element }
DumpElements(h, elts, i, pretty, c) ==
    IF i > Len(elts) THEN c
    ELSE DumpElements(h, elts, i + 1, pretty,
             cjson_dump(h, elts[i], pretty,
                        cjson_pretty_newline(Printed(c, <<",">>), pretty)))

\* for (next(&it); !it.end; next(&it)) { ',' newline member }
DumpMembers(h, it0, pretty, c) ==
    LET it == cjson_iterate_next(h, it0).it
    IN  IF it.end THEN c
        ELSE DumpMembers(h, it, pretty,
                 DumpMember(h, it, pretty,
                            cjson_pretty_newline(Printed(c, <<",">>), pretty)))

cjson_dump(h, element, pretty, c) ==
    IF ~Live(h, element) THEN [c EXCEPT !.crash = TRUE]
    ELSE
    LET t == TypeOf(h, element)
        v == ValueOf(h, element)
    IN  CASE t = "NULL" -> Printed(c, <<"n", "u", "l", "l">>)
          [] t = "BOOL" ->
               IF v.boolean THEN Printed(c, <<"t", "r", "u", "e">>)
               ELSE Printed(c, <<"f", "a", "l", "s", "e">>)
          [] t = "INTEGER" -> Printed(c, IntChars(UnionInteger(v)))
          \* printf("%d", element->value.integer.value)
          [] t = "FLOAT" -> Printed(c, IntChars(UnionInteger(v)))
          [] t = "STRING" ->
               IF v.string = 0 THEN [c EXCEPT !.crash = TRUE]
               ELSE Printed(c, <<"\"">> \o h.cells[v.string].chars \o <<"\"">>)
          [] t = "ARRAY" ->
               LET elts == Elements(h, element)
                   c2 == cjson_pretty_newline(
                             [Printed(c, <<"[">>) EXCEPT !.indent = @ + 2], pretty)
                   c3 == IF Len(elts) > 0
                         THEN cjson_dump(h, elts[1], pretty, c2) ELSE c2
                   c4 == DumpElements(h, elts, 2, pretty, c3)
                   c5 == cjson_pretty_newline([c4 EXCEPT !.indent = @ - 2], pretty)
               IN  Printed(c5, <<"]">>)
          [] t = "OBJECT" ->
               LET c2 == cjson_pretty_newline(
                             [Printed(c, <<"{">>) EXCEPT !.indent = @ + 2], pretty)
                   it == cjson_iterate_object(h, element)
                   c3 == IF ~it.end THEN DumpMember(h, it, pretty, c2) ELSE c2
                   c4 == DumpMembers(h, it, pretty, c3)
                   c5 == cjson_pretty_newline([c4 EXCEPT !.indent = @ - 2], pretty)
               IN  Printed(c5, <<"}">>)

(***************************************************************************)
(* Lexer.  content is the memory from the start of the input on: the text, *)
(* its terminating NUL, and the bytes that happen to follow it, the last   *)
(* of them a NUL; what lies further is not mapped.  Offsets are 0-based.   *)
(***************************************************************************)
SEGV == "SEGV"

At(content, off) == IF off < Len(content) THEN content[off + 1] ELSE SEGV

NoToken == [type |-> "NONE", content |-> 0, content_len |-> 0,
            integer_value |-> 0, float_value |-> 0]

NewLexer(content) ==
    [content |-> content, location |-> 0, token |-> NoToken, crash |-> "none"]

\* while (isdigit(input[token_len])) token_len += 1;
RECURSIVE SkipDigits(_, _)
SkipDigits(content, off) ==
    IF isdigit(At(content, off)) THEN SkipDigits(content, off + 1) ELSE off

RECURSIVE DigitsValue(_, _, _)
DigitsValue(content, off, acc) ==
    IF isdigit(At(content, off))
    THEN DigitsValue(content, off + 1, acc * 10 + DigitVal(At(content, off)))
    ELSE acc

\* strtol(input, NULL, 10): an optional sign, then the longest run of digits.
strtol(content, off) ==
    IF At(content, off) = "-" THEN 0 - DigitsValue(content, off + 1, 0)
    ELSE DigitsValue(content, off, 0)

\* The fraction digits from off on, in millionths.
RECURSIVE FractionValue(_, _, _)
FractionValue(content, off, unit) ==
    IF isdigit(At(content, off)) /\ unit > 0
    THEN DigitVal(At(content, off)) * unit
         + FractionValue(content, off + 1, unit \div 10)
    ELSE 0

\* strtod(input, NULL) on a decimal: sign, digits, '.' and digits.
strtod(content, off) ==
    LET neg == At(content, off) = "-"
        s == IF neg THEN off + 1 ELSE off
        e == SkipDigits(content, s)
        ip == DigitsValue(content, s, 0) * FloatScale
        fp == IF At(content, e) = "."
              THEN FractionValue(content, e + 1, FloatScale \div 10) ELSE 0
    IN  IF neg THEN 0 - (ip + fp) ELSE ip + fp

\* strncmp(input, word, n) == 0
StartsWith(content, off, word) ==
    \A i \in 1..Len(word) : At(content, off + i - 1) = word[i]

\* The while loop of the string case from token_len on: the token_len it
\* stops with and how: "closed" at the closing quote (counted), "error" at
\* an escape that is not recognized (goto token_error, token_len as it is),
\* "segv" when the scan leaves the mapped memory, "abort" at TODO().
RECURSIVE ScanString(_, _, _)
ScanString(content, off, token_len) ==
    LET c == At(content, off + token_len)
    IN  IF c = "\"" THEN [len |-> token_len + 1, how |-> "closed"]
        ELSE IF c = SEGV THEN [len |-> token_len, how |-> "segv"]
        ELSE IF c = "\\" /\ At(content, off + token_len + 1) = "u"
        THEN [len |-> token_len, how |-> "abort"]
        ELSE IF c = "\\"
        THEN IF At(content, off + token_len + 1)
                    \in {"\"", "\\", "/", "b", "f", "n", "r", "t"}
             THEN ScanString(content, off, token_len + 2)
             ELSE [len |-> token_len, how |-> "error"]
        ELSE ScanString(content, off, token_len + 1)

\* The number token that starts at off, token_len being len1 after the
\* first loop.
NumberToken(lexer, content, off, sign, len1) ==
    IF At(content, off + len1) = "." /\ isdigit(At(content, off + len1 + 1))
    \* token_len += 1; while (isdigit(input[token_len + 1])) token_len += 1;
    THEN [type |-> "FLOAT",
          len |-> SkipDigits(content, off + len1 + 2) - 1 - off,
          integer_value |-> strtol(content, off) * sign,
          float_value |-> strtod(content, off) * sign]
    ELSE [type |-> "INTEGER",
          len |-> len1,
          integer_value |-> strtol(content, off) * sign,
          float_value |-> lexer.token.float_value]

\* The token's fields and the location once the switch is done.
Lexed(lexer, off, n) ==
    [lexer EXCEPT !.token = [type |-> n.type, content |-> off,
                             content_len |-> n.len,
                             integer_value |-> n.integer_value,
                             float_value |-> n.float_value],
                  !.location = off + n.len]

\* A token that sets none of the two values.
Simple(lexer, type, len) ==
    Lexed(lexer, lexer.location,
          [type |-> type, len |-> len,
           integer_value |-> lexer.token.integer_value,
           float_value |-> lexer.token.float_value])

\* The string case, n being the outcome of its loop.
StringToken(lexer, n) ==
    IF n.how \in {"segv", "abort"}
    THEN [Simple(lexer, "ERROR", n.len) EXCEPT !.crash = n.how]
    ELSE Simple(lexer, IF n.how = "error" THEN "ERROR" ELSE "STRING", n.len)

\* strncmp(input, word, n) != 0 goes to token_error.
WordToken(lexer, content, off, word, type) ==
    IF StartsWith(content, off, word) THEN Simple(lexer, type, Len(word))
    ELSE Simple(lexer, "ERROR", 0)

\* switch (input[0])
TokenSwitch(lexer, content, off, c) ==
    CASE c = "-" \/ isdigit(c) ->
           Lexed(lexer, off,
                 NumberToken(lexer, content, off, IF c = "-" THEN 0 - 1 ELSE 1,
                             IF c # "0" THEN SkipDigits(content, off + 1) - off
                             ELSE 1))
      [] c = "f" -> WordToken(lexer, content, off, <<"f", "a", "l", "s", "e">>,
                              "FALSE")
      [] c = "n" -> WordToken(lexer, content, off, <<"n", "u", "l", "l">>, "NULL")
      [] c = "t" -> WordToken(lexer, content, off, <<"t", "r", "u", "e">>, "TRUE")
      [] c \in {",", ":", "[", "]", "{", "}"} ->
           Simple(lexer,
                  CASE c = "," -> "COMMA"
                    [] c = ":" -> "COLON"
                    [] c = "[" -> "LBRACK"
                    [] c = "]" -> "RBRACK"
                    [] c = "{" -> "LBRACE"
                    [] c = "}" -> "RBRACE",
                  1)
      [] c = "\"" -> StringToken(lexer, ScanString(content, off, 1))
      [] c = NUL -> Simple(lexer, "EOF", 0)
      [] OTHER -> Simple(lexer, "ERROR", 0)

cjson_read_next_token(lexer) ==
    TokenSwitch(lexer, lexer.content, lexer.location,
                At(lexer.content, lexer.location))

cjson_lexer_peek(lexer) ==
    IF lexer.token.type = "NONE" THEN cjson_read_next_token(lexer) ELSE lexer

\* The lexer after the pop; the popped token is the token of the peek.
cjson_lexer_pop(lexer) ==
    [cjson_lexer_peek(lexer) EXCEPT !.token.type = "NONE"]

RECURSIVE cjson_parse_ws(_)
cjson_parse_ws(lexer) ==
    IF isspace(At(lexer.content, lexer.location))
    THEN cjson_parse_ws([lexer EXCEPT !.location = @ + 1])
    ELSE lexer

(***************************************************************************)
(* String content extraction.                                              *)
(***************************************************************************)
BS == "BS"
FF == "FF"
LF == "LF"
TAB == "TAB"

\* The bytes of a C string held in a buffer: up to its first NUL.
RECURSIVE CString(_)
CString(bytes) ==
    IF bytes = <<>> \/ Head(bytes) = NUL THEN <<>>
    ELSE <<Head(bytes)>> \o CString(Tail(bytes))

Unescape(c) ==
    CASE c = "\"" -> "\""
      [] c = "\\" -> "\\"
      [] c = "/" -> "/"
      [] c = "b" -> BS
      [] c = "f" -> FF
      [] c = "n" -> LF
      [] c = "t" -> TAB
      [] OTHER -> NUL

\* for (i = 1; i < content_len - 1; i++): the bytes written to res, or
\* <<SEGV>> when the default case frees res and returns NULL.
RECURSIVE ExtractBytes(_, _, _, _)
ExtractBytes(content, off, i, content_len) ==
    IF i >= content_len - 1 THEN <<>>
    ELSE IF At(content, off + i) = "\\"
    THEN IF At(content, off + i + 1) \in {"\"", "\\", "/", "b", "f", "n", "t"}
         THEN LET rest == ExtractBytes(content, off, i + 2, content_len)
              IN  IF rest = <<SEGV>> THEN rest
                  ELSE <<Unescape(At(content, off + i + 1))>> \o rest
         ELSE <<SEGV>>
    ELSE LET rest == ExtractBytes(content, off, i + 1, content_len)
         IN  IF rest = <<SEGV>> THEN rest
             ELSE <<At(content, off + i)>> \o rest

\* Returns the heap and the address of the fresh string, 0 for NULL.
cjson_extract_string(h, content, token) ==
    LET bytes == ExtractBytes(content, token.content, 1, token.content_len)
        res == NewAddr(h)
        h1 == Alloc(h, StringCell(<<>>))
    IN  IF bytes = <<SEGV>> THEN [h |-> free(h1, res), res |-> 0]
        ELSE [h |-> [h1 EXCEPT !.cells[res].chars = CString(bytes)], res |-> res]

\* strndup(content + off, n)
strndup(content, off, n) ==
    CString([i \in 1..n |-> At(content, off + i - 1)])

(***************************************************************************)
(* Parser.  A parser state p is the lexer, the heap and the error flag     *)
(* every call shares; a parse function returns the state and its result.   *)
(***************************************************************************)
ParserObjectCapacity == 64

RECURSIVE cjson_parse_element(_)
RECURSIVE cjson_parse_value(_)
RECURSIVE cjson_parse_array(_)
RECURSIVE ParseArrayRest(_, _)
RECURSIVE cjson_parse_object(_)
RECURSIVE cjson_parse_members(_, _)
RECURSIVE ParseMembersRest(_, _)
RECURSIVE cjson_parse_member(_, _)

\* cjson_map_insert(map, name, element); free(name);
MemberInsert(map, name, chars, r) ==
    [lx |-> r.lx, h |-> free(cjson_map_insert(r.h, map, chars, r.res), name),
     error |-> r.error]

\* name = strndup(...); parse_ws; the peek lx3 is the colon or the error.
MemberColon(p, map, str, lx3) ==
    LET name == NewAddr(p.h)
        chars == strndup(p.lx.content, str.content + 1, str.content_len - 2)
        h1 == Alloc(p.h, StringCell(chars))
    IN  IF lx3.token.type # "COLON"
        THEN [p EXCEPT !.lx = lx3, !.h = h1, !.error = TRUE]
        ELSE MemberInsert(map, name, chars,
                 cjson_parse_element([p EXCEPT !.lx = cjson_lexer_pop(lx3),
                                               !.h = h1]))

\* str is the token of lx1, popped.
MemberName(p, map, lx1) ==
    IF lx1.token.type # "STRING"
    THEN [p EXCEPT !.lx = cjson_lexer_pop(lx1), !.error = TRUE]
    ELSE MemberColon(p, map, lx1.token,
             cjson_lexer_peek(cjson_parse_ws(cjson_lexer_pop(lx1))))

cjson_parse_member(p, map) ==
    MemberName(p, map, cjson_lexer_peek(cjson_parse_ws(p.lx)))

\* The body of the while loop, lx1 being the peek of its condition.
MembersComma(p, map, lx1) ==
    IF lx1.token.type = "COMMA"
    THEN ParseMembersRest(
             cjson_parse_member([p EXCEPT !.lx = cjson_lexer_pop(lx1)], map), map)
    ELSE [p EXCEPT !.lx = lx1]

\* while (!*error && peek == COMMA) { pop; cjson_parse_member(...); }
ParseMembersRest(p, map) ==
    IF p.error THEN p ELSE MembersComma(p, map, cjson_lexer_peek(p.lx))

cjson_parse_members(p, map) ==
    ParseMembersRest(cjson_parse_member(p, map), map)

\* token = cjson_lexer_pop(lexer), lx3 being its peek.
ObjectEnd(res, p2, lx3) ==
    IF lx3.token.type # "RBRACE"
    THEN [lx |-> cjson_lexer_pop(lx3), h |-> cjson_delete(p2.h, res),
          error |-> p2.error, res |-> 0]
    ELSE [lx |-> cjson_lexer_pop(lx3), h |-> p2.h, error |-> p2.error,
          res |-> res]

ObjectClose(res, p2) == ObjectEnd(res, p2, cjson_lexer_peek(p2.lx))

\* The object is allocated; lx2 is the peek after the white space.
ObjectOpen(p, res, lx2) ==
    LET p1 == [p EXCEPT !.lx = lx2,
                        !.h = cjson_create_object(p.h, ParserObjectCapacity)]
    IN  ObjectClose(res, IF ~p.error /\ lx2.token.type # "RBRACE"
                         THEN cjson_parse_members(p1, res) ELSE p1)

cjson_parse_object(p) ==
    ObjectOpen(p, NewAddr(p.h),
               cjson_lexer_peek(cjson_parse_ws(cjson_lexer_pop(p.lx))))

\* cjson_array_append(&res->value.array, elt)
ArrayAppended(res, r) ==
    [lx |-> r.lx, error |-> r.error, h |-> cjson_array_append(r.h, res, r.res)]

\* The body of the while loop, lx1 being the peek of its condition.
ArrayComma(p, res, lx1) ==
    IF lx1.token.type = "COMMA"
    THEN ParseArrayRest(
             ArrayAppended(res, cjson_parse_element(
                                    [p EXCEPT !.lx = cjson_lexer_pop(lx1)])),
             res)
    ELSE [p EXCEPT !.lx = lx1]

\* while (!*error && peek == COMMA) { pop; elt = element; append; }
ParseArrayRest(p, res) ==
    IF p.error THEN p ELSE ArrayComma(p, res, cjson_lexer_peek(p.lx))

\* if (peek != RBRACK) { delete; return NULL; } pop; return res;
ArrayEnd(res, p2, lx3) ==
    IF lx3.token.type # "RBRACK"
    THEN [lx |-> lx3, h |-> cjson_delete(p2.h, res), error |-> p2.error,
          res |-> 0]
    ELSE [lx |-> cjson_lexer_pop(lx3), h |-> p2.h, error |-> p2.error,
          res |-> res]

ArrayClose(res, p2) == ArrayEnd(res, p2, cjson_lexer_peek(p2.lx))

\* The array is allocated; lx2 is the peek after the white space.
ArrayOpen(p, res, lx2) ==
    LET h1 == Alloc(p.h, ElementCell("ARRAY", ZeroValue))
    IN  IF lx2.token.type # "RBRACK"
        THEN ArrayClose(res,
                 ParseArrayRest(
                     ArrayAppended(res, cjson_parse_element(
                                            [p EXCEPT !.lx = lx2, !.h = h1])),
                     res))
        ELSE [lx |-> cjson_lexer_pop(lx2), h |-> h1, error |-> p.error,
              res |-> res]

\* With the error flag up the condition stops before its peek.
cjson_parse_array(p) ==
    IF p.error
    THEN [lx |-> cjson_lexer_pop(cjson_parse_ws(cjson_lexer_pop(p.lx))),
          h |-> Alloc(p.h, ElementCell("ARRAY", ZeroValue)), error |-> p.error,
          res |-> NewAddr(p.h)]
    ELSE ArrayOpen(p, NewAddr(p.h),
                   cjson_lexer_peek(cjson_parse_ws(cjson_lexer_pop(p.lx))))

\* calloc an element, set its tag and one member of its union, pop.
Scalar(p, lx, type, value) ==
    [lx |-> cjson_lexer_pop(lx), error |-> p.error,
     h |-> Alloc(p.h, ElementCell(type, value)), res |-> NewAddr(p.h)]

\* res->value.string.value = cjson_extract_string(&token)
StringElement(p, lx, res, x) ==
    [lx |-> cjson_lexer_pop(lx), error |-> p.error,
     h |-> [x.h EXCEPT !.cells[res].value = [string |-> x.res]], res |-> res]

\* The switch on the type of the token peeked.
ValueSwitch(p, lx) ==
    LET token == lx.token
        t == token.type
    IN  CASE t = "LBRACE" -> cjson_parse_object([p EXCEPT !.lx = lx])
          [] t = "LBRACK" -> cjson_parse_array([p EXCEPT !.lx = lx])
          [] t = "STRING" ->
               StringElement(p, lx, NewAddr(p.h),
                   cjson_extract_string(
                       Alloc(p.h, ElementCell("STRING", ZeroValue)),
                       lx.content, token))
          [] t = "INTEGER" ->
               Scalar(p, lx, "INTEGER", [integer |-> token.integer_value])
          [] t = "FLOAT" ->
               Scalar(p, lx, "INTEGER", [fraction |-> token.float_value])
          [] t = "TRUE" -> Scalar(p, lx, "BOOL", [boolean |-> TRUE])
          [] t = "FALSE" -> Scalar(p, lx, "BOOL", [boolean |-> FALSE])
          [] t = "NULL" -> Scalar(p, lx, "NULL", ZeroValue)
          [] OTHER -> [lx |-> lx, error |-> p.error, h |-> p.h, res |-> 0]

cjson_parse_value(p) == ValueSwitch(p, cjson_lexer_peek(p.lx))

\* The white space after the value.
TrailingWs(r) == [r EXCEPT !.lx = cjson_parse_ws(@)]

cjson_parse_element(p) ==
    TrailingWs(cjson_parse_value([p EXCEPT !.lx = cjson_parse_ws(@)]))

\* if (error) return NULL; return res;
ParseResult(r) ==
    [lx |-> r.lx, h |-> r.h, error |-> r.error,
     res |-> IF r.error THEN 0 ELSE r.res]

\* cjson_parse_str on the memory content, allocating in heap h: the final
\* parser state and the result (0 for NULL).
cjson_parse_str(h, content) ==
    ParseResult(cjson_parse_element(
                    [lx |-> NewLexer(content), h |-> h, error |-> FALSE]))

(***************************************************************************)
(* The shape of a tree on the heap, read off the cells themselves.         *)
(***************************************************************************)
RECURSIVE Chain(_, _)
Chain(h, item) ==
    IF item = 0 THEN <<>> ELSE <<item>> \o Chain(h, h.cells[item].next)

RECURSIVE ChainsFrom(_, _, _)
ChainsFrom(h, heads, i) ==
    IF i > Len(heads) THEN <<>>
    ELSE Chain(h, heads[i]) \o ChainsFrom(h, heads, i + 1)

\* The entries of an object: buckets in ascending index, chains head first.
ItemsOf(h, obj) == ChainsFrom(h, h.cells[MembersOf(h, obj).items].heads, 1)

Range(f) == {f[i] : i \in DOMAIN f}

\* The children of an element.
Children(h, e) ==
    IF ~IsElem(h, e) THEN {}
    ELSE CASE TypeOf(h, e) = "ARRAY" -> Range(Elements(h, e))
           [] TypeOf(h, e) = "OBJECT" ->
                {h.cells[i].element : i \in Range(ItemsOf(h, e))}
           [] OTHER -> {}

\* The cells an element owns itself, children not counted.
OwnCells(h, e) ==
    IF ~IsElem(h, e) THEN {}
    ELSE {e} \cup
         CASE TypeOf(h, e) = "STRING" -> {ValueOf(h, e).string} \ {0}
           [] TypeOf(h, e) = "ARRAY" -> {ArrayOf(h, e).elements} \ {0}
           [] TypeOf(h, e) = "OBJECT" ->
                {MembersOf(h, e).items} \cup Range(ItemsOf(h, e))
                \cup {h.cells[i].name : i \in Range(ItemsOf(h, e))}
           [] OTHER -> {}

\* The elements of the tree rooted at e.
RECURSIVE Nodes(_, _)
Nodes(h, e) ==
    IF ~IsElem(h, e) THEN {}
    ELSE {e} \cup UNION {Nodes(h, c) : c \in Children(h, e)}

\* Every cell of the tree rooted at e.
Reach(h, e) == UNION {OwnCells(h, n) : n \in Nodes(h, e)}

(***************************************************************************)
(* Path accessor.  from is the path with its terminating NUL, off the      *)
(* 0-based offset the call starts at.  The result is the element returned, *)
(* whether an assertion aborted the process, and whether a slot at or      *)
(* beyond the array's size was read.                                       *)
(***************************************************************************)
IsNameChar(c) == isalpha(c) \/ c = "_" \/ isdigit(c)

\* strspn(from + off, letters, digits and '_')
RECURSIVE NameSpan(_, _)
NameSpan(from, off) ==
    IF IsNameChar(At(from, off)) THEN 1 + NameSpan(from, off + 1) ELSE 0

Aborted == [elt |-> 0, abort |-> TRUE, oob |-> FALSE]

\* elements[0] read whatever the index.
SlotReadFirst(h, array, i) ==
    LET a == ArrayOf(h, array)
    IN  IF i < a.size THEN [elt |-> h.cells[a.elements].slots[1], oob |-> FALSE]
        ELSE [elt |-> Uninit, oob |-> TRUE]

\* elements[i] as the machine reads it: a slot the array has filled, a slot
\* of the allocation nobody wrote, or memory outside the allocation.
SlotRead(h, array, i) ==
    LET a == ArrayOf(h, array)
    IN  IF i < a.size THEN [elt |-> h.cells[a.elements].slots[i + 1], oob |-> FALSE]
        ELSE [elt |-> Uninit, oob |-> TRUE]

RECURSIVE cjson_get_element_from(_, _, _, _)

cjson_get_element_from_object(h, element, from, off) ==
    IF ~cjson_is_object(h, element) THEN Aborted
    ELSE IF ~(isalpha(At(from, off + 1)) \/ At(from, off + 1) = "_") THEN Aborted
    ELSE LET name_len == NameSpan(from, off + 1)
             name == strndup(from, off + 1, name_len)
             elt_at_name == cjson_object_get(h, element, name)
         IN  IF elt_at_name = 0 THEN Aborted
             ELSE IF At(from, off + name_len + 1) = NUL
             THEN [elt |-> elt_at_name, abort |-> FALSE, oob |-> FALSE]
             ELSE cjson_get_element_from(h, elt_at_name, from, off + name_len + 1)

\* strtoul reads the digits after the '['; the paths of the model carry no
\* sign and no blank there.
cjson_get_element_from_array(h, element, from, off) ==
    IF ~cjson_is_array(h, element) THEN Aborted
    ELSE LET endptr == SkipDigits(from, off + 1)
             i == DigitsValue(from, off + 1, 0)
             r == SlotRead(h, element, i)
         IN  IF At(from, endptr) # "]" THEN Aborted
             ELSE IF At(from, endptr + 1) = NUL \/ r.oob
             THEN [elt |-> r.elt, abort |-> FALSE, oob |-> r.oob]
             ELSE cjson_get_element_from(h, r.elt, from, endptr + 1)

cjson_get_element_from(h, element, from, off) ==
    IF At(from, off) = "[" THEN cjson_get_element_from_array(h, element, from, off)
    ELSE IF At(from, off) = "." THEN cjson_get_element_from_object(h, element, from, off)
    ELSE Aborted

(***************************************************************************)
(* Paths as the caller writes them: a step is a member name or an index.   *)
(***************************************************************************)
NameStep(name) == [kind |-> "name", name |-> name, index |-> 0]
IndexStep(i) == [kind |-> "index", name |-> <<>>, index |-> i]

StepText(step) ==
    IF step.kind = "name" THEN <<".">> \o step.name
    ELSE <<"[">> \o NatChars(step.index) \o <<"]">>

RECURSIVE PathText(_)
PathText(steps) ==
    IF steps = <<>> THEN <<>> ELSE StepText(Head(steps)) \o PathText(Tail(steps))

\* Whether a step applies to element e: the matching container kind, the
\* member present, the index below the size.
StepApplies(h, e, step) ==
    /\ IsElem(h, e)
    /\ IF step.kind = "name"
       THEN cjson_is_object(h, e) /\ cjson_object_get(h, e, step.name) # 0
       ELSE cjson_is_array(h, e) /\ step.index < ArrayOf(h, e).size

\* One step by cjson_object_get / elements[i].
StepFrom(h, e, step) ==
    IF step.kind = "name" THEN cjson_object_get(h, e, step.name)
    ELSE Elements(h, e)[step.index + 1]

\* The steps applied from left to right; 0 when a step does not apply.
RECURSIVE Navigate(_, _, _)
Navigate(h, e, steps) ==
    IF steps = <<>> THEN e
    ELSE IF ~StepApplies(h, e, Head(steps)) THEN 0
    ELSE Navigate(h, StepFrom(h, e, Head(steps)), Tail(steps))

(***************************************************************************)
(* The caller.  roots are the elements the caller owns; clones those of    *)
(* them that cjson_clone ever returned; calls counts the statements that   *)
(* built or changed a tree; last is the call just made, with its           *)
(* arguments, its result and the heap it started from; run is the static   *)
(* indent of cjson_to_str_rec with the calls in progress.  The caller builds *)
(* a tree the way the driver does: a statement creates an element and      *)
(* hands it to a container of the tree.                                    *)
(***************************************************************************)
Names == {<<"a">>, <<"b">>, <<"c">>}

\* What a constructor call is given.
NullValue == [type |-> "NULL"]
BoolValue(b) == [type |-> "BOOL", boolean |-> b]
IntegerValue(i) == [type |-> "INTEGER", integer |-> i]
FloatValue(f) == [type |-> "FLOAT", fraction |-> f]
StringValue(str) == [type |-> "STRING", string |-> str]
ArrayValue == [type |-> "ARRAY"]
ObjectValue(capacity) == [type |-> "OBJECT", capacity |-> capacity]

cjson_create(h, v) ==
    CASE v.type = "NULL" -> cjson_create_null(h)
      [] v.type = "BOOL" -> cjson_create_bool(h, v.boolean)
      [] v.type = "INTEGER" -> cjson_create_integer(h, v.integer)
      [] v.type = "FLOAT" -> cjson_create_float(h, v.fraction)
      [] v.type = "STRING" -> cjson_create_string(h, v.string)
      [] v.type = "ARRAY" -> cjson_create_array(h)
      [] v.type = "OBJECT" -> cjson_create_object(h, v.capacity)

\* The address cjson_create returns on heap h.
Created(h, v) == IF v.type = "STRING" THEN NewAddr(h) + 1 ELSE NewAddr(h)

Used == Len(mem.cells)

\* The live containers the caller can reach.
Containers(type) ==
    {n \in UNION {Nodes(mem, r) : r \in roots} : TypeOf(mem, n) = type}

\* No serializer call is in progress; the static indent is 0.
NoRun == [indent |-> 0, calls |-> <<>>]

Init ==
    /\ mem = EmptyHeap
    /\ roots = {}
    /\ clones = {}
    /\ calls = 0
    /\ last = [op |-> "init"]
    /\ run = NoRun

\* root = cjson_create_...(...)
NewRoot(V) ==
    \E v \in V :
        /\ roots = {}
        /\ Used = 0
        /\ mem' = cjson_create(mem, v)
        /\ roots' = {Created(mem, v)}
        /\ clones' = clones
        /\ UNCHANGED run
        /\ calls' = calls + 1
        /\ last' = [op |-> "create", res |-> Created(mem, v), before |-> mem]

\* A call that changes the heap and leaves the caller's roots as they are.
Mutated(h, record, budget) ==
    /\ calls < budget
    /\ calls' = calls + 1
    /\ mem' = h
    /\ UNCHANGED <<roots, clones, run>>
    /\ last' = record

\* cjson_array_append(a, cjson_create_...(...))
ArrayAppendNew(V, budget) ==
    \E a \in Containers("ARRAY"), v \in V :
        LET h == cjson_create(mem, v)
            e == Created(mem, v)
        IN  Mutated(cjson_array_append(h, a, e),
                    [op |-> "array_append", array |-> a, element |-> e,
                     before |-> h], budget)

\* cjson_array_insert(a, cjson_create_...(...), index), the index at most
\* beyond places after the last element.
ArrayInsertNew(V, beyond, budget) ==
    \E a \in Containers("ARRAY"), v \in V :
        \E index \in 0..(ArrayOf(mem, a).size - 1 + beyond) :
            LET h == cjson_create(mem, v)
                e == Created(mem, v)
            IN  Mutated(cjson_array_insert(h, a, e, index),
                        [op |-> "array_insert", array |-> a, element |-> e,
                         index |-> index, before |-> h], budget)

\* cjson_object_insert(o, name, cjson_create_...(...))
ObjectInsertNew(V, N, budget) ==
    \E o \in Containers("OBJECT"), v \in V, name \in N :
        LET h == cjson_create(mem, v)
            e == Created(mem, v)
        IN  Mutated(cjson_object_insert(h, o, name, e),
                    [op |-> "object_insert", object |-> o, element |-> e,
                     name |-> name, old |-> cjson_object_get(mem, o, name),
                     before |-> h], budget)

Clone ==
    \E e \in roots :
        LET c == cjson_clone(mem, e)
        IN  /\ clones = {}
            /\ mem' = c.h
            /\ roots' = roots \cup {c.res}
            /\ clones' = clones \cup {c.res}
            /\ UNCHANGED run
            /\ calls' = calls
            /\ last' = [op |-> "clone", element |-> e, res |-> c.res,
                        before |-> mem]

Delete ==
    \E e \in roots :
        /\ mem' = cjson_delete(mem, e)
        /\ roots' = roots \ {e}
        /\ UNCHANGED <<clones, calls, run>>
        /\ last' = [op |-> "delete", element |-> e, before |-> mem]

TreeValues ==
    {IntegerValue(1), StringValue(<<"a">>), ArrayValue, ObjectValue(2)}

Build(V) ==
    \/ NewRoot(V)
    \/ ArrayAppendNew(V, MaxCalls)
    \/ ArrayInsertNew(V, 0, MaxCalls)
    \/ ObjectInsertNew(V, Names, MaxCalls)

Next == Build(TreeValues) \/ Clone \/ Delete

Spec == Init /\ [][Next]_vars

(***************************************************************************)
(* Arrays.  The driver builds an object, puts an array in it, appends      *)
(* three elements and inserts four: one slot of the first allocation is    *)
(* left, so the inserts that follow take the array through its first       *)
(* reallocation.                                                           *)
(***************************************************************************)
\* cjson_object_insert(obj, name, cjson_create_...(...))
MemberNew(h, obj, name, v) ==
    cjson_object_insert(cjson_create(h, v), obj, name, Created(h, v))

\* cjson_array_append(arr, cjson_create_...(...))
AppendNew(h, arr, v) ==
    cjson_array_append(cjson_create(h, v), arr, Created(h, v))

\* cjson_array_insert(arr, cjson_create_...(...), index)
InsertNew(h, arr, v, index) ==
    cjson_array_insert(cjson_create(h, v), arr, Created(h, v), index)

DriverArray ==
    LET elt == NewAddr(mem)
        h0 == cjson_create_object(mem, 10)
        h1 == MemberNew(h0, elt, <<"f", "1">>, IntegerValue(42))
        h2 == MemberNew(h1, elt, <<"f", "2">>, StringValue(<<"4", "2">>))
        h3 == MemberNew(h2, elt, <<"f", "3">>, ArrayValue)
        arr == cjson_object_get(h3, elt, <<"f", "3">>)
        h4 == AppendNew(h3, arr, IntegerValue(1))
        h5 == AppendNew(h4, arr, StringValue(<<"2">>))
        h6 == AppendNew(h5, arr, StringValue(<<"3">>))
        h7 == InsertNew(h6, arr, IntegerValue(0 - 1), 0)
        h8 == InsertNew(h7, arr, IntegerValue(0), 1)
        h9 == InsertNew(h8, arr, IntegerValue(5), 5)
    IN  /\ roots = {}
        /\ Used = 0
        /\ mem' = InsertNew(h9, arr, IntegerValue(4), 5)
        /\ roots' = {elt}
        /\ clones' = clones
        /\ UNCHANGED run
        /\ calls' = calls + 1
        /\ last' = [op |-> "driver_array", res |-> arr, before |-> h9]

NextArray ==
    \/ NewRoot({ArrayValue})
    \/ DriverArray
    \/ ArrayAppendNew({IntegerValue(1)}, MaxInserts + 1)
    \/ ArrayInsertNew({IntegerValue(1)}, 2, MaxInserts + 1)

SpecArray == Init /\ [][NextArray]_vars

(***************************************************************************)
(* Paths.  The caller builds a tree of arrays, objects and integers and    *)
(* asks for the element at a path; the driver parses its document and asks *)
(* for ".test.test2[2].test3".                                             *)
(***************************************************************************)
PathNames == {<<"a">>, <<"_", "b", "1">>}

PathValues == {IntegerValue(1), ArrayValue, ObjectValue(2)}

Steps == {NameStep(name) : name \in PathNames} \cup {IndexStep(i) : i \in 0..2}

\* The paths of one and two steps.
Paths == {<<s>> : s \in Steps} \cup {<<s, t>> : s \in Steps, t \in Steps}

\* cjson_get_element_from(element, "...")
GetPath ==
    \E element \in roots, steps \in Paths :
        /\ last.op # "get"
        /\ UNCHANGED <<mem, roots, clones, calls, run>>
        /\ last' = [op |-> "get", element |-> element, steps |-> steps,
                    res |-> cjson_get_element_from(
                                mem, element, PathText(steps) \o <<NUL>>, 0)]

input2 ==
    <<"{", "\"", "t", "e", "s", "t", "\"", ":", " ", "{", " ", "\"", "t", "e",
      "s", "t", "2", "\"", ":", " ", "[", "1", ",", "2", ",", " ", "{", "\"",
      "t", "e", "s", "t", "3", "\"", ":", " ", "4", ",", " ", "\"", "t", "e",
      "s", "t", "4", "\"", ":", " ", "5", "}", "]", "}", "}", NUL>>

DriverSteps ==
    <<NameStep(<<"t", "e", "s", "t">>), NameStep(<<"t", "e", "s", "t", "2">>),
      IndexStep(2), NameStep(<<"t", "e", "s", "t", "3">>)>>

\* element2 = cjson_parse_str(input2);
\* t3 = cjson_get_element_from(element2, ".test.test2[2].test3");
\* The driver changes element2 no more.
DriverPath ==
    LET p == cjson_parse_str(mem, input2)
    IN  /\ roots = {}
        /\ Used = 0
        /\ mem' = p.h
        /\ roots' = {p.res}
        /\ clones' = clones
        /\ UNCHANGED run
        /\ calls' = MaxCalls
        /\ last' = [op |-> "get", element |-> p.res, steps |-> DriverSteps,
                    res |-> cjson_get_element_from(
                                p.h, p.res, PathText(DriverSteps) \o <<NUL>>, 0)]

NextPath ==
    \/ NewRoot(PathValues)
    \/ ArrayAppendNew(PathValues, MaxCalls)
    \/ ObjectInsertNew(PathValues, PathNames, MaxCalls)
    \/ GetPath
    \/ DriverPath

SpecPath == Init /\ [][NextPath]_vars

(***************************************************************************)
(* Texts.  The caller builds a tree, then either writes it out and parses  *)
(* the text back, or parses a text that is the tree's text damaged: a      *)
(* comma put before a closing bracket, a colon taken out, the text cut     *)
(* inside a string.  cjson_parse_str is given the address of the text's    *)
(* first byte; what lies after the terminating NUL is whatever the process *)
(* has there.                                                              *)
(***************************************************************************)
TextNames == {<<"a">>, <<"b">>}

TextValues ==
    {IntegerValue(0 - 1), FloatValue(1500000), StringValue(<<"a">>),
     ArrayValue, ObjectValue(2)}

\* The memory after the NUL of a text: unmapped, or bytes of the process.
MemoryTails == {<<>>, <<"\"", NUL>>, <<"b", "\"", NUL>>}

TextCalls == {"to_str_parse", "trailing_comma", "missing_colon", "unterminated"}

\* The call is the caller's last: p is what cjson_parse_str came to.
Returned(kind, element, content, nul, p) ==
    /\ last.op \notin TextCalls
    /\ mem' = p.h
    /\ UNCHANGED <<roots, clones, run>>
    /\ calls' = MaxCalls
    /\ last' = [op |-> kind, element |-> element, text |-> content,
                nul |-> nul, res |-> p.res, crash |-> p.lx.crash,
                location |-> p.lx.location, before |-> mem]

\* res = cjson_parse_str(content)
Parsed(kind, element, content, nul) ==
    Returned(kind, element, content, nul, cjson_parse_str(mem, content))

\* The bytes of a text in memory.
InMemory(text, tail) == text \o <<NUL>> \o tail

\* The text with ins put before its k-th byte.
InsertAt(text, k, ins) ==
    SubSeq(text, 1, k - 1) \o ins \o SubSeq(text, k, Len(text))

\* The text without its k-th byte.
RemoveAt(text, k) == SubSeq(text, 1, k - 1) \o SubSeq(text, k + 1, Len(text))

\* Whether the k first bytes of the text end inside a string literal.
InString(text, k) ==
    Cardinality({i \in 1..k : text[i] = "\""}) % 2 = 1

\* The places of the text that hold one of the bytes.
Places(text, bytes) == {i \in 1..Len(text) : text[i] \in bytes}

ParseBack(element, text) ==
    Parsed("to_str_parse", element, InMemory(text, <<>>), Len(text))

\* res = cjson_parse_str(cjson_to_str(element, 0))
RoundTrip ==
    \E element \in roots : ParseBack(element, cjson_to_str(mem, element, FALSE))

CommaBeforeClose(element, text, comma) ==
    \E k \in Places(text, {"]", "}"}) :
        Parsed("trailing_comma", element,
               InMemory(InsertAt(text, k, comma), <<>>), Len(text) + Len(comma))

\* The text of a tree with ',' or ', ' put before a closing bracket.
TrailingComma ==
    \E element \in roots, comma \in {<<",">>, <<",", " ">>} :
        CommaBeforeClose(element, cjson_to_str(mem, element, FALSE), comma)

ColonOut(element, text) ==
    \E k \in Places(text, {":"}) :
        Parsed("missing_colon", element, InMemory(RemoveAt(text, k), <<>>),
               Len(text) - 1)

\* The text of a tree with the ':' after a member name taken out.
MissingColon ==
    \E element \in roots : ColonOut(element, cjson_to_str(mem, element, FALSE))

CutInString(element, text, tail) ==
    \E k \in {i \in 1..Len(text) : InString(text, i)} :
        Parsed("unterminated", element, InMemory(SubSeq(text, 1, k), tail), k)

\* The text of a tree cut inside a string literal.
Unterminated ==
    \E element \in roots, tail \in MemoryTails :
        CutInString(element, cjson_to_str(mem, element, FALSE), tail)

NextText ==
    \/ NewRoot(TextValues)
    \/ ArrayAppendNew(TextValues, MaxCalls)
    \/ ObjectInsertNew(TextValues, TextNames, MaxCalls)
    \/ RoundTrip
    \/ TrailingComma
    \/ MissingColon
    \/ Unterminated

SpecText == Init /\ [][NextText]_vars

(***************************************************************************)
(* Literal texts.  The caller hands cjson_parse_str a text written out     *)
(* byte by byte: a decimal integer, a decimal fraction between brackets or *)
(* commas, a string literal with escapes, or a short run of JSON tokens.   *)
(***************************************************************************)
MaxInteger == 12
MaxPieces == 2
MaxTokens == 4

\* The concatenation of a sequence of byte sequences.
RECURSIVE Flatten(_)
Flatten(pieces) ==
    IF pieces = <<>> THEN <<>> ELSE Head(pieces) \o Flatten(Tail(pieces))

\* The sequences of at most n members of the set.
RECURSIVE UpTo(_, _)
UpTo(n, set) ==
    IF n = 0 THEN {<<>>}
    ELSE UpTo(n - 1, set)
             \cup {Append(q, x) : q \in UpTo(n - 1, set), x \in set}

\* res = cjson_parse_str(text), the caller's one call.
ParseLiteral(kind, input, text) ==
    Parsed(kind, input, InMemory(text, <<>>), Len(text))

\* The text is what sprintf("%d") writes for the value.
ParseInteger ==
    \E v \in (0 - MaxInteger)..MaxInteger :
        /\ calls < MaxCalls
        /\ ParseLiteral("parse_integer", IntChars(v), IntChars(v))

\* The tokens the parser's peeks and pops go through, at most n + 1 of
\* them: type, start, length and the cursor after the token.
RECURSIVE LexAll(_, _)
TokensFrom(lx, n) ==
    <<[type |-> lx.token.type, content |-> lx.token.content,
       content_len |-> lx.token.content_len, location |-> lx.location]>>
        \o (IF n = 0 \/ lx.token.type \in {"EOF", "ERROR"} THEN <<>>
            ELSE LexAll(cjson_lexer_pop(lx), n - 1))

LexAll(lexer, n) == TokensFrom(cjson_lexer_peek(lexer), n)

FloatLiterals ==
    {ip \o <<".">> \o fp :
        ip \in {<<"0">>, <<"1">>, <<"1", "2">>, <<"-", "7">>},
        fp \in {<<"5">>, <<"2", "5">>, <<"0", "0", "5">>, <<"5", "0", "0", "0", "0", "0">>}}

\* A float literal alone, or between the tokens before and after it.
LexFloat ==
    \E lit \in FloatLiterals, pre \in {<<>>, <<"[">>, <<"[", "1", ",">>},
       post \in {<<>>, <<"]">>, <<",", "1", "]">>, <<"}">>} :
        /\ calls < MaxCalls
        /\ calls' = MaxCalls
        /\ UNCHANGED <<mem, roots, clones, run>>
        /\ last' = [op |-> "lex_float", off |-> Len(pre), len |-> Len(lit),
                    text |-> pre \o lit \o post,
                    tokens |-> LexAll(NewLexer(InMemory(pre \o lit \o post, <<>>)),
                                      Len(pre) + Len(lit) + Len(post))]

Escapes == {"\"", "\\", "/", "b", "f", "n", "r", "t"}

\* The pieces of a string literal: a plain byte or an escape.
StringPieces == {<<"a">>} \cup {<<"\\", e>> : e \in Escapes}

ParseString ==
    \E pieces \in UpTo(MaxPieces, StringPieces) :
        /\ calls < MaxCalls
        /\ ParseLiteral("parse_string", Flatten(pieces),
                        <<"\"">> \o Flatten(pieces) \o <<"\"">>)

TextPieces ==
    {<<"[">>, <<"]">>, <<"{">>, <<"}">>, <<",">>, <<":">>, <<"1">>,
     <<"\"", "a", "\"">>}

ParseText ==
    \E pieces \in UpTo(MaxTokens, TextPieces) :
        /\ calls < MaxCalls
        /\ ParseLiteral("parse_text", Flatten(pieces), Flatten(pieces))

NextLiteral ==
    \/ ParseInteger
    \/ LexFloat
    \/ ParseString
    \/ ParseText

SpecLiteral == Init /\ [][NextLiteral]_vars

(***************************************************************************)
(* Serializers.  The caller builds a tree of every kind of element and     *)
(* writes it out both ways, compact or pretty.                             *)
(***************************************************************************)
SerialValues ==
    {NullValue, BoolValue(TRUE), IntegerValue(0 - 12), FloatValue(1500000),
     IntegerValue(2147483647), IntegerValue(0 - 2147483647 - 1),
     StringValue(<<"a">>), ArrayValue, ObjectValue(2)}

SerialCalls == {"dump", "to_str"}

\* cjson_dump(element, pretty); str = cjson_to_str(element, pretty);
Dump ==
    \E element \in roots, pretty \in BOOLEAN :
        /\ last.op \notin SerialCalls
        /\ UNCHANGED <<mem, roots, clones, calls, run>>
        /\ last' = [op |-> "dump", element |-> element, pretty |-> pretty,
                    out |-> cjson_dump(mem, element, pretty,
                                       [out |-> <<>>, indent |-> 0,
                                        crash |-> FALSE]).out,
                    str |-> cjson_to_str(mem, element, pretty)]

\* The call has come to serializer state c.  A byte written after the end
\* of buffer lands in the caller's frame: the build without a stack guard
\* returns the text, the one with a guard aborts when the function returns.
Formatted(element, pretty, c) ==
    \E outcome \in IF c.beyond = 0 THEN {"returned"} ELSE {"returned", "smashed"} :
        /\ last.op \notin SerialCalls
        /\ UNCHANGED <<mem, roots, clones, calls, run>>
        /\ last' = [op |-> "to_str", element |-> element, pretty |-> pretty,
                    beyond |-> c.beyond, outcome |-> outcome,
                    str |-> IF outcome = "returned" THEN c.sb.str ELSE <<>>]

\* str = cjson_to_str(element, pretty)
ToStr ==
    \E element \in roots, pretty \in BOOLEAN :
        Formatted(element, pretty, ToStrState(mem, element, pretty))

NextSerial ==
    \/ NewRoot(SerialValues)
    \/ ArrayAppendNew(SerialValues, MaxCalls)
    \/ ObjectInsertNew(SerialValues, TextNames, MaxCalls)
    \/ Dump
    \/ ToStr

SpecSerial == Init /\ [][NextSerial]_vars

(***************************************************************************)
(* Two pretty cjson_to_str calls at once.  A call is at one statement of   *)
(* its walk: an append to its own builder, the load or the store of        *)
(* indent += 2 and indent -= 2, or the new line that appends indent        *)
(* spaces.  indent is the one static variable every call reads and writes. *)
(***************************************************************************)
Put(chars) == [op |-> "put", chars |-> chars]
Stmt(op) == [op |-> op, chars |-> <<>>]

RECURSIVE Walk(_, _)
RECURSIVE WalkElements(_, _, _)
RECURSIVE WalkMembers(_, _)

WalkMember(h, it) ==
    <<Put(<<"\"">> \o h.cells[it.name].chars \o <<"\"", ":">>)>>
        \o Walk(h, it.element)

WalkElements(h, elts, i) ==
    IF i > Len(elts) THEN <<>>
    ELSE <<Put(<<",">>), Stmt("newline")>> \o Walk(h, elts[i])
             \o WalkElements(h, elts, i + 1)

WalkMembers(h, it0) ==
    LET it == cjson_iterate_next(h, it0).it
    IN  IF it.end THEN <<>>
        ELSE <<Put(<<",">>), Stmt("newline")>> \o WalkMember(h, it)
                 \o WalkMembers(h, it)

\* The statements cjson_to_str_rec(element, 1, sb) executes, in order.
Walk(h, element) ==
    CASE cjson_is_array(h, element) ->
           LET elts == Elements(h, element)
           IN  <<Put(<<"[">>), Stmt("load"), Stmt("store_inc"), Stmt("newline")>>
                   \o (IF Len(elts) > 0 THEN Walk(h, elts[1]) ELSE <<>>)
                   \o WalkElements(h, elts, 2)
                   \o <<Stmt("load"), Stmt("store_dec"), Stmt("newline"),
                        Put(<<"]">>)>>
      [] cjson_is_object(h, element) ->
           LET it == cjson_iterate_object(h, element)
           IN  <<Put(<<"{">>), Stmt("load"), Stmt("store_inc"), Stmt("newline")>>
                   \o (IF ~it.end THEN WalkMember(h, it) ELSE <<>>)
                   \o WalkMembers(h, it)
                   \o <<Stmt("load"), Stmt("store_dec"), Stmt("newline"),
                        Put(<<"}">>)>>
      [] OTHER -> <<Put(cjson_to_str(h, element, TRUE))>>

\* A call at its first statement.
Call(element) ==
    [element |-> element, pc |-> 1, reg |-> 0, out |-> <<>>, crash |-> FALSE]

Done(t) == t.pc > Len(Walk(mem, t.element))

\* The call and the static indent after the call's next statement.  indent
\* is a size_t: below 0 it is a huge count of spaces no builder can hold.
Stepped(t, indent, ev) ==
    CASE ev.op = "put" ->
           [t |-> [t EXCEPT !.pc = @ + 1, !.out = @ \o ev.chars],
            indent |-> indent]
      [] ev.op = "load" ->
           [t |-> [t EXCEPT !.pc = @ + 1, !.reg = indent], indent |-> indent]
      [] ev.op = "store_inc" ->
           [t |-> [t EXCEPT !.pc = @ + 1], indent |-> t.reg + 2]
      [] ev.op = "store_dec" ->
           [t |-> [t EXCEPT !.pc = @ + 1], indent |-> t.reg - 2]
      [] ev.op = "newline" ->
           [t |-> IF indent < 0 THEN [t EXCEPT !.crash = TRUE]
                  ELSE [t EXCEPT !.pc = @ + 1,
                                 !.out = @ \o <<"\n">> \o Spaces(indent)],
            indent |-> indent]

\* Two threads call cjson_to_str(element, 1), one on a tree, one on its
\* clone.
StartCalls ==
    \E a \in roots \ clones, b \in clones :
        /\ b \in roots
        /\ run.calls = <<>>
        /\ run' = [indent |-> 0, calls |-> <<Call(a), Call(b)>>]
        /\ calls' = MaxCalls
        /\ UNCHANGED <<mem, roots, clones>>
        /\ last' = [op |-> "to_str_start"]

StepCall ==
    \E i \in DOMAIN run.calls :
        LET t == run.calls[i]
        IN  /\ ~Done(t)
            /\ ~t.crash
            /\ LET n == Stepped(t, run.indent, Walk(mem, t.element)[t.pc])
               IN  run' = [indent |-> n.indent,
                           calls |-> [run.calls EXCEPT ![i] = n.t]]
            /\ UNCHANGED <<mem, roots, clones, calls>>
            /\ last' = [op |-> "to_str_step"]

ReentrantValues == {IntegerValue(1), ArrayValue, ObjectValue(2)}

NextReentrant ==
    \/ NewRoot(ReentrantValues)
    \/ ArrayAppendNew(ReentrantValues, MaxCalls - 1)
    \/ ObjectInsertNew(ReentrantValues, {<<"a">>}, MaxCalls - 1)
    \/ Clone
    \/ StartCalls
    \/ StepCall

SpecReentrant == Init /\ [][NextReentrant]_vars

(***************************************************************************)
(* Inserts into objects only: a tree of objects, integers and strings.     *)
(***************************************************************************)
MapValues == {IntegerValue(1), StringValue(<<"a">>), ObjectValue(2)}

NextMap ==
    \/ NewRoot(MapValues)
    \/ ObjectInsertNew(MapValues, Names, MaxInserts + 1)

SpecMap == Init /\ [][NextMap]_vars

(***************************************************************************)
(* A traversal of one object of the tree built by inserts: the caller's    *)
(* loop  it = cjson_iterate_object(o); while (!it.end) cjson_iterate_next. *)
(* last holds the cursor, the cursor before the step and the entries the   *)
(* cursor has stood on, in order.  Nothing is inserted once it has begun.  *)
(***************************************************************************)
IterOps == {"iterate", "iterate_next"}

IterStart ==
    \E o \in Containers("OBJECT") :
        LET it == cjson_iterate_object(mem, o)
        IN  /\ last.op \notin IterOps
            /\ calls' = MaxInserts + 1
            /\ UNCHANGED <<mem, roots, clones, run>>
            /\ last' = [op |-> "iterate", object |-> o, it |-> it, was |-> it,
                        seen |-> IF it.end THEN <<>> ELSE <<it.item>>]

IterNext ==
    /\ last.op \in IterOps
    /\ LET r == cjson_iterate_next(mem, last.it)
       IN  /\ mem' = r.h
           /\ last' = [op |-> "iterate_next", object |-> last.object,
                       it |-> r.it, was |-> last.it,
                       seen |-> IF r.it.end THEN last.seen
                                ELSE Append(last.seen, r.it.item)]
    /\ UNCHANGED <<roots, clones, calls, run>>

NextIterate ==
    \/ NewRoot(MapValues)
    \/ ObjectInsertNew(MapValues, Names, MaxInserts + 1)
    \/ IterStart
    \/ IterNext

\* The caller's loop goes on calling cjson_iterate_next.
SpecIterate == Init /\ [][NextIterate]_vars /\ WF_vars(IterNext)

(***************************************************************************)
(* Structural equality of two trees, each on its heap.  Arrays and scalars *)
(* compare exactly, objects as sets of (name, value) pairs; capacity says  *)
(* whether two objects must also have the same number of buckets.          *)
(***************************************************************************)
MemberNames(h, o) == {NameOf(h, i) : i \in Range(ItemsOf(h, o))}

MemberAt(h, o, name) ==
    LET i == CHOOSE i \in Range(ItemsOf(h, o)) : NameOf(h, i) = name
    IN  h.cells[i].element

RECURSIVE SameTree(_, _, _, _, _)
SameTree(h1, e1, h2, e2, capacity) ==
    IF ~IsElem(h1, e1) \/ ~IsElem(h2, e2) THEN e1 = 0 /\ e2 = 0
    ELSE
    /\ TypeOf(h1, e1) = TypeOf(h2, e2)
    /\ CASE TypeOf(h1, e1) = "STRING" ->
              LET s1 == ValueOf(h1, e1).string
                  s2 == ValueOf(h2, e2).string
              IN  /\ s1 # 0
                  /\ s2 # 0
                  /\ h1.cells[s1].chars = h2.cells[s2].chars
         [] TypeOf(h1, e1) = "ARRAY" ->
              /\ ArrayOf(h1, e1).size = ArrayOf(h2, e2).size
              /\ \A i \in 1..ArrayOf(h1, e1).size :
                    SameTree(h1, Elements(h1, e1)[i], h2, Elements(h2, e2)[i],
                             capacity)
         [] TypeOf(h1, e1) = "OBJECT" ->
              /\ capacity =>
                    MembersOf(h1, e1).capacity = MembersOf(h2, e2).capacity
              /\ Len(ItemsOf(h1, e1)) = Len(ItemsOf(h2, e2))
              /\ MemberNames(h1, e1) = MemberNames(h2, e2)
              /\ \A name \in MemberNames(h1, e1) :
                    SameTree(h1, MemberAt(h1, e1, name),
                             h2, MemberAt(h2, e2, name), capacity)
         [] OTHER -> ValueOf(h1, e1) = ValueOf(h2, e2)

\* A tree no call can trip over: every cell live, no NULL child, no NULL
\* string.
WellFormed(h, e) ==
    /\ IsElem(h, e)
    /\ \A n \in Nodes(h, e) :
          /\ \A c \in OwnCells(h, n) : Live(h, c)
          /\ \A c \in Children(h, n) : IsElem(h, c)
          /\ TypeOf(h, n) = "STRING" => ValueOf(h, n).string # 0

\* Cell c is as it was in heap h0.
SameCell(h0, c) == IsAddr(mem, c) /\ mem.cells[c] = h0.cells[c]

\* Every cell of the set has been freed, and freed once.
FreedOnce(cs) ==
    \A c \in cs : mem.cells[c].frees = 1 /\ ~mem.cells[c].live

(***************************************************************************)
(* C8: cjson_clone returns a tree of the same shape and values as its      *)
(* argument: same kind and scalar value at every node, equal string        *)
(* contents, arrays of equal length in the same order, objects of the same *)
(* capacity with the same set of (name, value) pairs.                      *)
(***************************************************************************)
C8_CloneEquality ==
    last.op = "clone" =>
        /\ last.res # 0
        /\ mem.faults = {}
        /\ SameTree(mem, last.element, mem, last.res, TRUE)

\* A cloned object with two entries in one chain.
C8_Witness ==
    /\ last.op = "clone"
    /\ TypeOf(mem, last.element) = "OBJECT"
    /\ \E i \in Range(ItemsOf(mem, last.res)) : mem.cells[i].next # 0

(***************************************************************************)
(* C9: the tree cjson_clone returns shares no cell with its argument, and  *)
(* once a clone exists a call that changes or deletes one of the two trees *)
(* leaves every cell of the other as it was, and live.                     *)
(***************************************************************************)
Touched ==
    CASE last.op \in {"array_append", "array_insert"} -> last.array
      [] last.op = "object_insert" -> last.object
      [] last.op = "delete" -> last.element
      [] OTHER -> 0

C9_CloneIsolation ==
    /\ last.op = "clone" =>
          /\ Reach(mem, last.res) \cap Reach(mem, last.element) = {}
          /\ Reach(mem, last.res) \cap (1..Len(last.before.cells)) = {}
          /\ \A c \in 1..Len(last.before.cells) : SameCell(last.before, c)
    /\ (clones # {} /\ Touched # 0) =>
          \A r \in roots :
              Touched \notin Nodes(last.before, r) =>
                  /\ WellFormed(mem, r)
                  /\ Reach(mem, r) = Reach(last.before, r)
                  /\ \A c \in Reach(last.before, r) : SameCell(last.before, c)

\* The clone of an object holding a string has been deleted, the original
\* is still the caller's.
C9_Witness ==
    /\ last.op = "delete"
    /\ last.element \in clones
    /\ \E r \in roots :
          /\ TypeOf(mem, r) = "OBJECT"
          /\ \E n \in Nodes(mem, r) : TypeOf(mem, n) = "STRING"

(***************************************************************************)
(* C10: cjson_delete of a root frees every cell of its tree exactly once   *)
(* (element nodes, string buffers, array stores, entries, entry names,     *)
(* bucket arrays), frees nothing else, and reads no freed cell.            *)
(***************************************************************************)
C10_DeleteOnce ==
    last.op = "delete" =>
        /\ mem.faults = {}
        /\ FreedOnce(Reach(last.before, last.element))
        /\ \A c \in (1..Len(mem.cells)) \ Reach(last.before, last.element) :
              SameCell(last.before, c)

\* The deleted tree was an object with a chain of two entries.
C10_Witness ==
    /\ last.op = "delete"
    /\ TypeOf(last.before, last.element) = "OBJECT"
    /\ \E i \in Range(ItemsOf(last.before, last.element)) :
          last.before.cells[i].next # 0

(***************************************************************************)
(* C7: after any sequence of cjson_object_insert calls every name of an    *)
(* object is held by one entry; an insert under a name already present     *)
(* frees the element stored before exactly once and nothing else, adds no  *)
(* entry and keeps the stored name; cjson_object_get of the name then      *)
(* returns the element just inserted.                                      *)
(***************************************************************************)
UniqueNames(h, o) ==
    \A i, j \in 1..Len(ItemsOf(h, o)) :
        i # j => NameOf(h, ItemsOf(h, o)[i]) # NameOf(h, ItemsOf(h, o)[j])

EntryOf(h, o, name) ==
    CHOOSE i \in Range(ItemsOf(h, o)) : NameOf(h, i) = name

C7_DuplicateKeyReplace ==
    /\ \A o \in Containers("OBJECT") : UniqueNames(mem, o)
    /\ last.op = "object_insert" =>
          LET b == last.before
              o == last.object
              kept == (1..Len(b.cells)) \ Reach(b, last.old)
          IN  /\ mem.faults = {}
              /\ cjson_object_get(mem, o, last.name) = last.element
              /\ last.old # 0 =>
                    /\ FreedOnce(Reach(b, last.old))
                    /\ Len(mem.cells) = Len(b.cells)
                    /\ ItemsOf(mem, o) = ItemsOf(b, o)
                    /\ \A c \in kept \ {EntryOf(b, o, last.name)} : SameCell(b, c)
                    /\ mem.cells[EntryOf(b, o, last.name)] =
                          [b.cells[EntryOf(b, o, last.name)]
                              EXCEPT !.element = last.element]
              /\ last.old = 0 =>
                    /\ Len(ItemsOf(mem, o)) = Len(ItemsOf(b, o)) + 1
                    /\ \A c \in kept \ {MembersOf(b, o).items} : SameCell(b, c)

\* A string has been replaced under a name whose entry is not the head of
\* its chain.
C7_Witness ==
    /\ last.op = "object_insert"
    /\ last.old # 0
    /\ TypeOf(last.before, last.old) = "STRING"
    /\ \E i \in Range(ItemsOf(mem, last.object)) :
          /\ mem.cells[i].next # 0
          /\ NameOf(mem, mem.cells[i].next) = last.name

(***************************************************************************)
(* C6: cjson_array_insert(array, x, i) on an array holding e0..e(n-1)      *)
(* leaves e0..e(i-1) in place, puts x at position i and moves ei..e(n-1)   *)
(* one position on in their order when i < n; puts x at position n and     *)
(* moves nothing when i >= n; the size becomes n + 1.  The driver's        *)
(* appends of 1, 2, 3 and inserts of -1 at 0, 0 at 1, 5 at 5 and 4 at 5    *)
(* give the values -1, 0, 1, 2, 3, 4, 5 in this order.                     *)
(***************************************************************************)
\* The value an integer or a string element holds, as text.
ValueText(h, e) ==
    IF cjson_is_string(h, e) THEN h.cells[ValueOf(h, e).string].chars
    ELSE IntChars(ValueOf(h, e).integer)

ValueTexts(h, array) ==
    [i \in 1..ArrayOf(h, array).size |-> ValueText(h, Elements(h, array)[i])]

C6_ArrayInsert ==
    /\ last.op = "array_insert" =>
          LET old == Elements(last.before, last.array)
              new == Elements(mem, last.array)
              n == Len(old)
              i == last.index
          IN  /\ ArrayOf(mem, last.array).size = n + 1
              /\ ArrayOf(mem, last.array).capacity >= n + 1
              /\ i < n =>
                    /\ \A k \in 1..i : new[k] = old[k]
                    /\ new[i + 1] = last.element
                    /\ \A k \in (i + 1)..n : new[k + 1] = old[k]
              /\ i >= n =>
                    /\ \A k \in 1..n : new[k] = old[k]
                    /\ new[n + 1] = last.element
    /\ last.op = "driver_array" =>
          ValueTexts(mem, last.res)
              = <<<<"-", "1">>, <<"0">>, <<"1">>, <<"2">>, <<"3">>, <<"4">>, <<"5">>>>

\* An insert below the size, not at the front, into an array that filled
\* its first allocation: the append inside it reallocated.
C6_Witness ==
    /\ last.op = "array_insert"
    /\ last.index > 0
    /\ last.index < ArrayOf(last.before, last.array).size
    /\ ArrayOf(last.before, last.array).size = ArrayInitCapacity
    /\ ArrayOf(mem, last.array).capacity = 2 * ArrayInitCapacity

(***************************************************************************)
(* C4: on a path whose every step applies (the matching container kind,    *)
(* the member present, the index below the size) cjson_get_element_from    *)
(* returns, without aborting, the very element that cjson_object_get and   *)
(* elements[i] reach step by step from left to right; on the driver's      *)
(* document ".test.test2[2].test3" is the integer 4.                       *)
(***************************************************************************)
\* Every step of the path applies to the element the steps before reach.
RECURSIVE Applies(_, _, _)
Applies(h, e, steps) ==
    \/ steps = <<>>
    \/ /\ StepApplies(h, e, Head(steps))
       /\ Applies(h, StepFrom(h, e, Head(steps)), Tail(steps))

C4_PathNavigation ==
    /\ (last.op = "get" /\ Applies(mem, last.element, last.steps)) =>
          /\ ~last.res.abort
          /\ ~last.res.oob
          /\ last.res.elt = Navigate(mem, last.element, last.steps)
          /\ Live(mem, last.res.elt)
          /\ mem.faults = {}
    /\ (last.op = "get" /\ last.steps = DriverSteps) =>
          /\ ~last.res.abort
          /\ cjson_is_integer(mem, last.res.elt)
          /\ ValueOf(mem, last.res.elt).integer = 4

\* A path of a name and an index, every step applying, on a tree the
\* constructors built.
C4_Witness ==
    /\ last.op = "get"
    /\ Len(last.steps) = 2
    /\ last.steps[1].kind = "name"
    /\ last.steps[2].kind = "index"
    /\ Applies(mem, last.element, last.steps)
    /\ last.res.elt = Navigate(mem, last.element, last.steps)

(***************************************************************************)
(* C5: cjson_get_element_from aborts, returns no element and reads no slot *)
(* outside the array's size whenever a step of the path names an absent    *)
(* member, gives an index at or beyond the array's size, or is applied to  *)
(* an element of the wrong container kind.                                 *)
(***************************************************************************)
C5_PathFailure ==
    (last.op = "get" /\ ~Applies(mem, last.element, last.steps)) =>
        /\ last.res.abort
        /\ ~last.res.oob

(***************************************************************************)
(* C1: for every tree built with the constructors from scalars (negative   *)
(* integers, floats and strings among them), arrays and objects,           *)
(* cjson_parse_str(cjson_to_str(T, 0)) returns a tree structurally equal   *)
(* to T: objects equal whatever the order of their members, arrays and     *)
(* scalars equal in kind and value.                                        *)
(***************************************************************************)
C1_RoundTrip ==
    last.op = "to_str_parse" =>
        /\ last.crash = "none"
        /\ last.res # 0
        /\ SameTree(last.before, last.element, mem, last.res, FALSE)

(***************************************************************************)
(* C2: for every text in which a ',' is followed, after optional white     *)
(* space, by the closing '}' or ']' of its container, or in which a member *)
(* name is not followed by ':', cjson_parse_str returns NULL and never a   *)
(* tree.                                                                   *)
(***************************************************************************)
C2_MalformedRejected ==
    last.op \in {"trailing_comma", "missing_colon"} =>
        /\ last.crash = "none"
        /\ mem.faults = {}
        /\ last.res = 0

(***************************************************************************)
(* C3: for a text whose string literal has no closing '"' before the end   *)
(* of the text, the lexer's scan stops at the end of the text, its cursor  *)
(* never past the terminating NUL, and cjson_parse_str returns NULL.       *)
(***************************************************************************)
C3_UnterminatedRejected ==
    last.op = "unterminated" =>
        /\ last.crash = "none"
        /\ last.location <= last.nul
        /\ last.res = 0

(***************************************************************************)
(* C11: whenever the parser consumes a float token, the element it builds  *)
(* has kind Float (cjson_is_float true, cjson_is_integer false) and its    *)
(* float payload is the token's value.                                     *)
(***************************************************************************)
\* The elements the parse allocated whose union was written through its
\* fraction member: those built from a float token.
FromFloatToken ==
    {c \in (Len(last.before.cells) + 1)..Len(mem.cells) :
        /\ mem.cells[c].k = "elem"
        /\ "fraction" \in DOMAIN mem.cells[c].value}

C11_FloatTag ==
    last.op = "to_str_parse" =>
        /\ \A c \in FromFloatToken :
              cjson_is_float(mem, c) /\ ~cjson_is_integer(mem, c)
        /\ cjson_is_float(last.before, last.element) =>
              /\ last.res \in FromFloatToken
              /\ ValueOf(mem, last.res).fraction
                     = ValueOf(last.before, last.element).fraction

(***************************************************************************)
(* C12: for every well-formed tree, of any element kinds, Float among      *)
(* them, and either value of the pretty flag, the characters cjson_dump    *)
(* writes are the string cjson_to_str returns.                             *)
(***************************************************************************)
C12_DumpEquivalence ==
    (last.op = "dump" /\ WellFormed(mem, last.element)) => last.out = last.str

(***************************************************************************)
(* C13: when two pretty cjson_to_str calls on independent trees run        *)
(* interleaved, each call's output is the output it produces when run      *)
(* alone: the indentation it emits depends on its own nesting depth only.  *)
(***************************************************************************)
C13_Reentrant ==
    \A i \in DOMAIN run.calls :
        /\ ~run.calls[i].crash
        /\ Done(run.calls[i]) =>
              run.calls[i].out = cjson_to_str(mem, run.calls[i].element, TRUE)

(***************************************************************************)
(* C14: on an object that is not mutated meanwhile, cjson_iterate_object   *)
(* and the cjson_iterate_next calls after it stand on every member exactly *)
(* once, buckets in ascending index and each chain head to tail, and then  *)
(* set end; the first cursor of an object with no members has end set; a   *)
(* step on an ended cursor leaves it as it is; and a traversal that has    *)
(* begun reaches end.                                                      *)
(***************************************************************************)
IterOrder ==
    last.op \in IterOps =>
        LET items == ItemsOf(mem, last.object)
            seen == last.seen
            it == last.it
        IN  /\ \A i, j \in DOMAIN items :
                  (i # j) => /\ items[i] # items[j]
                             /\ NameOf(mem, items[i]) # NameOf(mem, items[j])
            /\ Len(seen) <= Len(items)
            /\ seen = SubSeq(items, 1, Len(seen))
            /\ ~it.end =>
                  /\ Len(seen) > 0
                  /\ it.item = seen[Len(seen)]
                  /\ it.name = mem.cells[it.item].name
                  /\ it.element = mem.cells[it.item].element
            /\ it.end => seen = items
            /\ (last.op = "iterate" /\ items = <<>>) => it.end
            /\ (last.op = "iterate_next" /\ last.was.end) => it = last.was
            /\ mem.faults = {}

C14_Iteration ==
    /\ [] IterOrder
    /\ (last.op = "iterate") ~> (last.op \in IterOps /\ last.it.end)

\* A traversal has ended after standing on three members, two of them in
\* one chain and the third in another bucket.
C14_Witness ==
    /\ last.op = "iterate_next"
    /\ last.it.end
    /\ ~last.was.end
    /\ Len(last.seen) = 3
    /\ mem.cells[last.seen[2]].next = last.seen[3]
    /\ mem.cells[last.seen[1]].next = 0

(***************************************************************************)
(* C15: the integer literal d parses to the Integer d and the literal -d   *)
(* to the Integer -d: the text sprintf("%d") writes for a value, negative  *)
(* ones included, parses back to that value.                               *)
(***************************************************************************)
RECURSIVE Decimal(_, _)
Decimal(digits, acc) ==
    IF digits = <<>> THEN acc
    ELSE Decimal(Tail(digits), acc * 10 + DigitVal(Head(digits)))

\* The number a literal denotes.
LiteralValue(text) ==
    IF Head(text) = "-" THEN 0 - Decimal(Tail(text), 0) ELSE Decimal(text, 0)

C15_SignedInteger ==
    last.op = "parse_integer" =>
        /\ last.res # 0
        /\ cjson_is_integer(mem, last.res)
        /\ UnionInteger(ValueOf(mem, last.res)) = LiteralValue(last.element)

(***************************************************************************)
(* C16: a float literal (integer part, '.', one or more digits) is one     *)
(* float token that covers all of it, and the cursor after the token is at *)
(* the first byte after the last fractional digit.                         *)
(***************************************************************************)
C16_FloatExtent ==
    last.op = "lex_float" =>
        \E k \in DOMAIN last.tokens :
            /\ last.tokens[k].type = "FLOAT"
            /\ last.tokens[k].content = last.off
            /\ last.tokens[k].content_len = last.len
            /\ last.tokens[k].location = last.off + last.len

(***************************************************************************)
(* C17: every string literal whose escapes are among \" \\ \/ \b \f \n \t  *)
(* \r is a string token the lexer accepts, and content extraction turns it *)
(* into a non-null string with each escape replaced by its character: the  *)
(* parse succeeds and the String element's payload is that string.         *)
(***************************************************************************)
CR == "CR"

EscapeChar(e) ==
    CASE e = "\"" -> "\""
      [] e = "\\" -> "\\"
      [] e = "/" -> "/"
      [] e = "b" -> BS
      [] e = "f" -> FF
      [] e = "n" -> LF
      [] e = "r" -> CR
      [] e = "t" -> TAB

\* The characters of the body of a string literal.
RECURSIVE Resolved(_)
Resolved(body) ==
    IF body = <<>> THEN <<>>
    ELSE IF Head(body) = "\\"
    THEN <<EscapeChar(body[2])>> \o Resolved(Tail(Tail(body)))
    ELSE <<Head(body)>> \o Resolved(Tail(body))

C17_EscapeResolution ==
    last.op = "parse_string" =>
        /\ last.res # 0
        /\ cjson_is_string(mem, last.res)
        /\ ValueOf(mem, last.res).string # 0
        /\ mem.cells[ValueOf(mem, last.res).string].chars = Resolved(last.element)

(***************************************************************************)
(* C18: on every text the parser appends no null element to an array and   *)
(* inserts no null element as a member value; a non-null result is a       *)
(* well-formed tree, and no cjson_delete of a failure path meets a null    *)
(* element.                                                                *)
(***************************************************************************)
C18_NoNullChildren ==
    last.op = "parse_text" =>
        /\ \A c \in 1..Len(mem.cells) :
              /\ (IsElem(mem, c) /\ cjson_is_array(mem, c)) =>
                    \A i \in DOMAIN Elements(mem, c) : Elements(mem, c)[i] # 0
              /\ mem.cells[c].k = "item" => mem.cells[c].element # 0
        /\ last.res # 0 => WellFormed(mem, last.res)
        /\ "null_deref" \notin mem.faults

(***************************************************************************)
(* C19: for every 32-bit Integer value, the least one included, the text   *)
(* cjson_to_str formats for it (sign, digits and the terminating NUL) fits *)
(* the 11-byte buffer: no byte is written outside it and the call returns  *)
(* the decimal text.                                                       *)
(***************************************************************************)
C19_IntegerFitsBuffer ==
    (last.op = "to_str" /\ cjson_is_integer(mem, last.element)) =>
        /\ last.beyond = 0
        /\ last.outcome = "returned"
        /\ Len(last.str) + 1 <= BufferSize
        /\ LiteralValue(last.str) = UnionInteger(ValueOf(mem, last.element))

=============================================================================
